---- MODULE Spec2Model ----
(***************************************************************************)
(* A model of the MAX channel plugin (openclaw-max): the webhook path      *)
(* normaliser and target registry of src/src/webhook.ts and the update     *)
(* dispatcher / message normaliser / policy gate of the monitor            *)
(* (src/unnamed/part_000).                                                 *)
(*                                                                         *)
(* Strings the code inspects character by character are sequences of       *)
(* one-character strings.  An optional value is a sequence of length at    *)
(* most one: None is <<>> (JS undefined / null), Some(x) is <<x>>.         *)
(***************************************************************************)
EXTENDS Integers, Sequences, FiniteSets, TLC

VARIABLES
    \* ---- resolveMaxWebhookPath applied to drawn arguments
    pathPc,          \* "init" | "once" | "twice"
    pathArg,         \* Maybe(string): the webhookPath argument
    urlArg,          \* Maybe(url record): the webhookUrl argument
    pathOnce,        \* resolveMaxWebhookPath(pathArg, urlArg)
    pathTwice,       \* resolveMaxWebhookPath(pathOnce, urlArg)
    \* ---- the webhook target registry and one HTTP request
    webhookTargets,  \* module-level Map<string, MaxWebhookTarget[]> of webhook.ts
    nextTargetId,    \* identity of the next normalizedTarget object
    unregisterFns,   \* the unregister closures returned so far: [id, key]
    liveTargets,     \* history: registrations whose unregister was not called yet
    req,             \* the HTTP request being handled by handleMaxWebhookRequest
    \* ---- the update dispatcher and the message normaliser
    monitorOpts,     \* what the monitor reads of MaxMonitorOptions, fixed at start
    pairingStore,    \* host: the persisted allow-from store of channel "max"
    pairingPending,  \* host: the ids with a pending pairing request
    stickerCache,    \* sticker-cache.ts: [byChat, global]
    last,            \* the update dispatched last, its environment and its effects
    dmHistory,       \* history: per sender, pairing requests created and replies sent
    \* ---- the update receiver: startMaxPolling, in polling or webhook mode
    rcvPc,           \* where the receiver is (see startMaxPollingLoop / startMaxWebhook)
    rcvConfig,       \* account.config: [webhookUrl, webhookPath, webhookSecret]
    aborted,         \* abortSignal.aborted
    marker,          \* the loop's marker: None is null
    apiMarker,       \* vendor API: the largest marker it has returned
    sentMarker,      \* history: Some(marker of the getUpdates request issued last)
    resp,            \* the getUpdates response being processed: [marker, updates]
    batchIdx,        \* position in batch of the update being dispatched
    cycleLog,        \* history: dispatch events of the current cycle
    failures,        \* history: consecutive failed getUpdates requests (saturating)
    rcvUnregister,   \* the unregister closure held by startMaxWebhook
    rcvLogged,       \* history: the kinds of error logged by the receiver
    \* ---- account and group configuration resolved from drawn configs
    cfgPc,           \* "init" | "done"
    cfgArg,          \* the arguments: [cfg, accountId, groupId]
    cfgResult,       \* what resolveMaxAccount and resolveRequireMention returned
    \* ---- replies and the vendor's side of the webhook subscription
    subscribed,      \* vendor API: a subscription for the account's URL is active
    dlv,             \* per invocation of processIncomingMessage: its locals and sends
    tmpFiles,        \* the files under /tmp/max-media-*: path -> what was written
    clock            \* Date.now()

pathVars == <<pathPc, pathArg, urlArg, pathOnce, pathTwice>>
whVars == <<webhookTargets, nextTargetId, unregisterFns, liveTargets, req>>
msgVars == <<monitorOpts, pairingStore, pairingPending, stickerCache, last, dmHistory>>
rcvVars == <<rcvPc, rcvConfig, aborted, marker, apiMarker, sentMarker, resp, batchIdx,
             cycleLog, failures, rcvUnregister, rcvLogged>>
cfgVars == <<cfgPc, cfgArg, cfgResult>>
outVars == <<subscribed, dlv, tmpFiles, clock>>
vars == <<pathVars, whVars, msgVars, rcvVars, cfgVars, outVars>>

None == <<>>
Some(x) == <<x>>
IsSome(m) == Len(m) = 1
Get(m) == m[1]

\* the invocations of processIncomingMessage that can be in progress at once
Procs == {"a", "b"}
\* an invocation that has not started: its locals, staged files and sends
OffProc ==
    [pc |-> "off", message |-> None, chat |-> <<>>, chunks |-> <<>>, media |-> <<>>,
     i |-> 0, j |-> 0, tmpPath |-> 0, log |-> <<>>]
NoDeliveries == [p \in Procs |-> OffProc]

(***************************************************************************)
(* Bounds of the model.                                                    *)
(***************************************************************************)
MaxPathLen == 4
MaxTargets == 3
MaxSenderId == 2
MaxCount == 2
MaxAttachments == 2
MaxTimestamp == 12
MaxDeliveries == 2
MaxMarker == 3
MaxClock == 3
MaxBatch == 2
MaxFailures == 2

(***************************************************************************)
(* String helpers (JavaScript semantics).                                  *)
(***************************************************************************)
IsSpace(c) == c = " "

RECURSIVE TrimStart(_)
TrimStart(s) ==
    IF s # <<>> /\ IsSpace(Head(s)) THEN TrimStart(Tail(s)) ELSE s

RECURSIVE TrimEnd(_)
TrimEnd(s) ==
    IF s # <<>> /\ IsSpace(s[Len(s)]) THEN TrimEnd(SubSeq(s, 1, Len(s) - 1)) ELSE s

\* String.prototype.trim
Trim(s) == TrimEnd(TrimStart(s))

StartsWith(s, p) == Len(s) >= Len(p) /\ SubSeq(s, 1, Len(p)) = p
EndsWith(s, p) == Len(s) >= Len(p) /\ SubSeq(s, Len(s) - Len(p) + 1, Len(s)) = p

RECURSIVE StringsUpTo(_, _)
StringsUpTo(alphabet, n) ==
    IF n = 0 THEN {<<>>}
    ELSE LET shorter == StringsUpTo(alphabet, n - 1)
         IN  shorter \cup {Append(s, c) : s \in shorter, c \in alphabet}

(***************************************************************************)
(* webhook.ts: path normalisation.                                         *)
(***************************************************************************)
Slash == <<"/">>
DefaultPath == <<"/", "m", "a", "x">>

normalizeWebhookPath(raw) ==
    LET trimmed == Trim(raw)
        withSlash == IF StartsWith(trimmed, Slash) THEN trimmed ELSE Slash \o trimmed
    IN  IF trimmed = <<>> THEN Slash
        ELSE IF Len(withSlash) > 1 /\ EndsWith(withSlash, Slash)
             THEN SubSeq(withSlash, 1, Len(withSlash) - 1)
             ELSE withSlash

\* A webhookUrl string, reduced to what the code asks of it: whether it is
\* blank, whether new URL() accepts it, and the pathname new URL() yields.
UrlBlank(u) == u.blank
UrlParses(u) == u.parses
UrlPathname(u) == u.pathname

resolveMaxWebhookPath(webhookPath, webhookUrl) ==
    LET trimmedPath == IF IsSome(webhookPath) THEN Trim(Get(webhookPath)) ELSE <<>>
    IN  IF trimmedPath # <<>> THEN normalizeWebhookPath(trimmedPath)
        ELSE IF IsSome(webhookUrl) /\ ~UrlBlank(Get(webhookUrl))
             THEN IF UrlParses(Get(webhookUrl))
                  THEN normalizeWebhookPath(
                           IF UrlPathname(Get(webhookUrl)) # <<>>
                           THEN UrlPathname(Get(webhookUrl)) ELSE Slash)
                  ELSE DefaultPath
             ELSE DefaultPath

PathAlphabet == {"/", "a", " "}
PathStrings == StringsUpTo(PathAlphabet, MaxPathLen)
PathArgs == {None} \cup {Some(p) : p \in PathStrings}
UrlArgs ==
    {None,
     Some([blank |-> TRUE, parses |-> FALSE, pathname |-> <<>>]),
     Some([blank |-> FALSE, parses |-> FALSE, pathname |-> <<>>]),
     Some([blank |-> FALSE, parses |-> TRUE, pathname |-> Slash]),
     Some([blank |-> FALSE, parses |-> TRUE, pathname |-> <<"/", "a", "/">>])}

EmptyMap == [k \in {} |-> <<>>]
NoResp == [marker |-> <<>>, updates |-> <<>>]

IdleReq ==
    [phase |-> "idle", path |-> <<>>, method |-> "", header |-> "", body |-> "",
     targets |-> <<>>, liveKeys |-> {}, handled |-> FALSE, status |-> 0,
     invoked |-> <<>>, onUpdate |-> ""]


PathInit ==
    /\ rcvPc = "idle" /\ rcvConfig = None /\ aborted = FALSE /\ marker = None
    /\ apiMarker = 0 /\ sentMarker = None /\ resp = NoResp /\ batchIdx = 0
    /\ cycleLog = <<>> /\ failures = 0 /\ rcvUnregister = None /\ rcvLogged = {}
    /\ cfgPc = "idle" /\ cfgArg = None /\ cfgResult = None
    /\ subscribed = FALSE /\ dlv = NoDeliveries /\ tmpFiles = EmptyMap /\ clock = 1
    /\ webhookTargets = EmptyMap /\ nextTargetId = 0 /\ unregisterFns = {}
    /\ liveTargets = {} /\ req = IdleReq
    /\ monitorOpts = None /\ pairingStore = {} /\ pairingPending = {}
    /\ stickerCache = None /\ last = None /\ dmHistory = None
    /\ pathPc = "init"
    /\ pathArg \in PathArgs
    /\ urlArg \in UrlArgs
    /\ pathOnce = <<>>
    /\ pathTwice = <<>>


\* const p1 = resolveMaxWebhookPath(webhookPath, webhookUrl)
ResolveOnce ==
    /\ pathPc = "init"
    /\ pathOnce' = resolveMaxWebhookPath(pathArg, urlArg)
    /\ pathPc' = "once"
    /\ UNCHANGED <<pathArg, urlArg, pathTwice, whVars, msgVars, rcvVars, cfgVars, outVars>>

\* const p2 = resolveMaxWebhookPath(p1, webhookUrl)
ResolveTwice ==
    /\ pathPc = "once"
    /\ pathTwice' = resolveMaxWebhookPath(Some(pathOnce), urlArg)
    /\ pathPc' = "twice"
    /\ UNCHANGED <<pathArg, urlArg, pathOnce, whVars, msgVars, rcvVars, cfgVars, outVars>>

(***************************************************************************)
(* webhook.ts: the target registry.  A MaxWebhookTarget is reduced to the  *)
(* identity of its normalizedTarget object, its normalised path and its    *)
(* optional secret; secrets and header values are opaque strings.          *)
(***************************************************************************)
MapGet(map, key) == IF key \in DOMAIN map THEN map[key] ELSE <<>>
MapSet(map, key, value) ==
    [k \in (DOMAIN map) \cup {key} |-> IF k = key THEN value ELSE map[k]]
MapDelete(map, key) == [k \in (DOMAIN map) \ {key} |-> map[k]]

\* registerMaxWebhookTarget, up to the return of the closure
RegistryAfterRegister(map, normalizedTarget) ==
    LET key == normalizedTarget.path
        existing == MapGet(map, key)
        next == existing \o <<normalizedTarget>>
    IN  MapSet(map, key, next)

\* Mutant of RegistryAfterUnregister: the closure drops the whole path.
RegistryAfterUnregister_DropsPath(map, key, id) == MapDelete(map, key)

\* Mutant of RegistryAfterUnregister: the closure removes nothing.
RegistryAfterUnregister_KeepsTarget(map, key, id) == map

\* the closure returned by registerMaxWebhookTarget
RegistryAfterUnregister(map, key, id) ==
    LET isOther(entry) == entry.id # id
        updated == SelectSeq(MapGet(map, key), isOther)
    IN  IF Len(updated) > 0 THEN MapSet(map, key, updated) ELSE MapDelete(map, key)

\* JS truthiness of target.secret
HasSecret(target) == IsSome(target.secret) /\ Get(target.secret) # ""

\* handleMaxWebhookRequest: "Find matching target by secret".  The loop over
\* targets, with matched the value of matchedTarget so far.
RECURSIVE MatchLoop(_, _, _)
MatchLoop(targets, webhookSecret, matched) ==
    IF targets = <<>> THEN matched
    ELSE LET target == Head(targets)
         IN  IF HasSecret(target) /\ Get(target.secret) = webhookSecret
             THEN Some(target)
             ELSE IF ~HasSecret(target)
                  THEN MatchLoop(Tail(targets), webhookSecret, Some(target))
                  ELSE MatchLoop(Tail(targets), webhookSecret, matched)

\* Mutant of MatchTarget: the secret is not compared, the first target wins.
MatchTarget_FirstTarget(targets, webhookSecret) ==
    IF targets = <<>> THEN None ELSE Some(Head(targets))

\* Mutant of MatchTarget: the loop has no break, so a later target without a
\* secret replaces the target whose secret matched.
RECURSIVE MatchLoop_NoBreak(_, _, _)
MatchLoop_NoBreak(targets, webhookSecret, matched) ==
    IF targets = <<>> THEN matched
    ELSE LET target == Head(targets)
         IN  IF (HasSecret(target) /\ Get(target.secret) = webhookSecret)
                \/ ~HasSecret(target)
             THEN MatchLoop_NoBreak(Tail(targets), webhookSecret, Some(target))
             ELSE MatchLoop_NoBreak(Tail(targets), webhookSecret, matched)

MatchTarget_NoBreak(targets, webhookSecret) ==
    MatchLoop_NoBreak(targets, webhookSecret, None)

MatchTarget(targets, webhookSecret) == MatchLoop(targets, webhookSecret, None)

\* the status of a body that readJsonBodyWithLimit or the object test rejects
BodyErrorStatus(body) ==
    CASE body = "PAYLOAD_TOO_LARGE" -> 413
      [] body = "REQUEST_BODY_TIMEOUT" -> 408
      [] OTHER -> 400

TargetPaths == {<<"a", "/">>, <<"/", "b">>}
TargetSecrets == {None, Some(""), Some("s1"), Some("s2")}
RequestPaths == {<<"/", "a", "/">>}
RequestMethods == {"POST", "GET"}
RequestHeaders == {"", "s1"}
RequestBodies == {"object", "array", "PAYLOAD_TOO_LARGE", "REQUEST_BODY_TIMEOUT"}

WebhookInit ==
    /\ rcvPc = "idle" /\ rcvConfig = None /\ aborted = FALSE /\ marker = None
    /\ apiMarker = 0 /\ sentMarker = None /\ resp = NoResp /\ batchIdx = 0
    /\ cycleLog = <<>> /\ failures = 0 /\ rcvUnregister = None /\ rcvLogged = {}
    /\ cfgPc = "idle" /\ cfgArg = None /\ cfgResult = None
    /\ subscribed = FALSE /\ dlv = NoDeliveries /\ tmpFiles = EmptyMap /\ clock = 1
    /\ pathPc = "idle" /\ pathArg = None /\ urlArg = None
    /\ pathOnce = <<>> /\ pathTwice = <<>>
    /\ monitorOpts = None /\ pairingStore = {} /\ pairingPending = {}
    /\ stickerCache = None /\ last = None /\ dmHistory = None
    /\ webhookTargets = EmptyMap
    /\ nextTargetId = 1
    /\ unregisterFns = {}
    /\ liveTargets = {}
    /\ req = IdleReq

\* registerMaxWebhookTarget(target)
Register(rawPath, secret) ==
    /\ nextTargetId <= MaxTargets
    /\ req.phase # "done"
    /\ LET key == normalizeWebhookPath(rawPath)
           normalizedTarget == [id |-> nextTargetId, path |-> key, secret |-> secret]
       IN  /\ webhookTargets' = RegistryAfterRegister(webhookTargets, normalizedTarget)
           /\ unregisterFns' = unregisterFns \cup {[id |-> nextTargetId, key |-> key]}
           /\ liveTargets' = liveTargets \cup
                  {[id |-> nextTargetId, rawPath |-> rawPath, secret |-> secret]}
    /\ nextTargetId' = nextTargetId + 1
    /\ UNCHANGED <<req, pathVars, msgVars, rcvVars, cfgVars, outVars>>

\* a call of an unregister closure (any of those returned so far, any number of times)
Unregister(fn) ==
    /\ fn \in unregisterFns
    /\ req.phase # "done"
    /\ webhookTargets' = RegistryAfterUnregister(webhookTargets, fn.key, fn.id)
    /\ liveTargets' = {t \in liveTargets : t.id # fn.id}
    /\ UNCHANGED <<nextTargetId, unregisterFns, req, pathVars, msgVars, rcvVars, cfgVars, outVars>>

\* handleMaxWebhookRequest up to its first await (the body read)
RequestStart(pathname, method, header) ==
    /\ req.phase = "idle"
    /\ LET path == normalizeWebhookPath(pathname)
           targets == MapGet(webhookTargets, path)
           base == [IdleReq EXCEPT !.path = pathname, !.method = method,
                                   !.header = header,
                                   !.liveKeys = {normalizeWebhookPath(t.rawPath) :
                                                   t \in liveTargets}]
       IN  req' = IF Len(targets) = 0
                  THEN [base EXCEPT !.phase = "done", !.handled = FALSE]
                  ELSE IF method # "POST"
                       THEN [base EXCEPT !.phase = "done", !.handled = TRUE,
                                         !.status = 405]
                       ELSE [base EXCEPT !.phase = "reading", !.targets = targets]
    /\ UNCHANGED <<webhookTargets, nextTargetId, unregisterFns, liveTargets, pathVars,
                   msgVars, rcvVars, cfgVars, outVars>>

\* handleMaxWebhookRequest from the completion of the body read to its return;
\* onUpdate is how the matched target's callback ends
RequestBody(body, onUpdate) ==
    /\ req.phase = "reading"
    /\ LET matchedTarget == MatchTarget(req.targets, req.header)
           done == [req EXCEPT !.phase = "done", !.handled = TRUE, !.body = body]
       IN  req' = IF body # "object"
                  THEN [done EXCEPT !.status = BodyErrorStatus(body)]
                  ELSE IF ~IsSome(matchedTarget)
                       THEN [done EXCEPT !.status = 401]
                       ELSE [done EXCEPT !.invoked = <<Get(matchedTarget).id>>,
                                         !.onUpdate = onUpdate,
                                         !.status = IF onUpdate = "ok" THEN 200 ELSE 500]
    /\ UNCHANGED <<webhookTargets, nextTargetId, unregisterFns, liveTargets, pathVars,
                   msgVars, rcvVars, cfgVars, outVars>>

(***************************************************************************)
(* The monitor (src/unnamed/part_000): JavaScript conversions it relies on. *)
(***************************************************************************)
Digits == <<"0", "1", "2", "3", "4", "5", "6", "7", "8", "9">>
IsDigit(c) == \E i \in DOMAIN Digits : Digits[i] = c

\* String(n) / `${n}` of a non-negative integer: its decimal digits
RECURSIVE NumberToString(_)
NumberToString(n) ==
    IF n < 10 THEN <<Digits[n + 1]>>
    ELSE NumberToString(n \div 10) \o <<Digits[(n % 10) + 1]>>

\* String(x) of an optional number: String(undefined) is "undefined"
StringOf(maybeNumber) ==
    IF IsSome(maybeNumber) THEN NumberToString(Get(maybeNumber)) ELSE <<"undefined">>

UpperLetters == <<"A", "B", "C", "D", "E", "F", "G", "H", "I", "J", "K", "L", "M",
                  "N", "O", "P", "Q", "R", "S", "T", "U", "V", "W", "X", "Y", "Z">>
LowerLetters == <<"a", "b", "c", "d", "e", "f", "g", "h", "i", "j", "k", "l", "m",
                  "n", "o", "p", "q", "r", "s", "t", "u", "v", "w", "x", "y", "z">>
IsUpper(c) == \E i \in DOMAIN UpperLetters : UpperLetters[i] = c
IsLower(c) == \E i \in DOMAIN LowerLetters : LowerLetters[i] = c
ToLower(c) ==
    IF IsUpper(c) THEN LowerLetters[CHOOSE i \in DOMAIN UpperLetters : UpperLetters[i] = c]
    ELSE c

\* the regular expression class \w
IsWordChar(c) == IsUpper(c) \/ IsLower(c) \/ IsDigit(c) \/ c = "_"
IsWordAt(text, k) == k \in DOMAIN text /\ IsWordChar(text[k])
\* the assertion \b between text[j] and text[j + 1]
WordBoundary(text, j) == IsWordAt(text, j) # IsWordAt(text, j + 1)

\* new RegExp(`@${botUsername}\\b`, "i").test(rawText)
MentionAt(text, botUsername, i) ==
    /\ text[i] = "@"
    /\ i + Len(botUsername) <= Len(text)
    /\ \A k \in DOMAIN botUsername : ToLower(text[i + k]) = ToLower(botUsername[k])
    /\ WordBoundary(text, i + Len(botUsername))
MentionPatternTest(text, botUsername) ==
    \E i \in DOMAIN text : MentionAt(text, botUsername, i)

EditedMarker == <<"_", "e", "d", "i", "t", "e", "d", "_">>
AllDigits(s) == s # <<>> /\ \A i \in DOMAIN s : IsDigit(s[i])
\* /_edited_\d+$/ matches messageId at position i
EditedSuffixAt(messageId, i) ==
    /\ i + Len(EditedMarker) - 1 <= Len(messageId)
    /\ SubSeq(messageId, i, i + Len(EditedMarker) - 1) = EditedMarker
    /\ AllDigits(SubSeq(messageId, i + Len(EditedMarker), Len(messageId)))

\* Mutant of StripEditedSuffix: the id is cut at the first "_edited_" it
\* holds, whatever follows (/_edited_.*$/).
StripEditedSuffix_FirstMarker(messageId) ==
    LET starts == {i \in DOMAIN messageId :
                     /\ i + Len(EditedMarker) - 1 <= Len(messageId)
                     /\ SubSeq(messageId, i, i + Len(EditedMarker) - 1) = EditedMarker}
    IN  IF starts = {} THEN messageId
        ELSE SubSeq(messageId, 1, (CHOOSE i \in starts : \A j \in starts : i <= j) - 1)

\* messageId.replace(/_edited_\d+$/, "")
StripEditedSuffix(messageId) ==
    LET starts == {i \in DOMAIN messageId : EditedSuffixAt(messageId, i)}
    IN  IF starts = {} THEN messageId
        ELSE SubSeq(messageId, 1, (CHOOSE i \in starts : \A j \in starts : i <= j) - 1)

\* `${originalMid}_edited_${update.timestamp}`
EditedMid(originalMid, timestamp) ==
    originalMid \o EditedMarker \o NumberToString(timestamp)

\* Array.prototype.join(" ") of strings held as token sequences
RECURSIVE JoinWithSpace(_)
JoinWithSpace(parts) ==
    IF parts = <<>> THEN <<>>
    ELSE IF Len(parts) = 1 THEN Head(parts)
         ELSE Head(parts) \o <<" ">> \o JoinWithSpace(Tail(parts))

(***************************************************************************)
(* processIncomingMessage: attachment reduction.  An attachment is         *)
(* [type, code, url, filename, name] with "" for an absent field; a        *)
(* description is a string held as a sequence of tokens.                   *)
(***************************************************************************)
DownloadableTypes == {"image", "sticker", "video", "audio", "file"}
UrlIsHttp(url) == url \in {"http://u", "https://u"}

\* the contribution of one attachment; downloadOk says whether
\* fetchRemoteMedia and saveMediaBuffer succeed for it
ReduceAttachment(att, chatId, downloadOk) ==
    LET attType == att.type
        stickerCode == IF attType = "sticker" THEN att.code ELSE ""
        codeDesc == IF stickerCode # ""
                    THEN <<<<"[Sticker: code=", stickerCode, "]">>>> ELSE <<>>
        remembered == IF stickerCode # "" /\ IsSome(chatId)
                      THEN <<[chat |-> StringOf(chatId), code |-> stickerCode]>>
                      ELSE <<>>
        noMedia == [descs |-> <<>>, media |-> <<>>, stickers |-> <<>>]
    IN  IF attType \in DownloadableTypes
        THEN IF UrlIsHttp(att.url)
             THEN IF downloadOk
                  THEN [descs |-> codeDesc, media |-> <<att.url>>, stickers |-> remembered]
                  ELSE [descs |-> codeDesc \o
                                  (IF attType # "sticker"
                                   THEN <<<<"[", attType, ": ", att.url, "]">>>>
                                   ELSE <<>>),
                        media |-> <<>>, stickers |-> remembered]
             ELSE [descs |-> codeDesc \o
                             (IF attType = "sticker"
                              THEN IF att.code # ""
                                   THEN <<<<"[Sticker", ": ", att.code, "]">>>>
                                   ELSE <<<<"[Sticker", "]">>>>
                              ELSE IF attType = "file"
                                   THEN IF att.filename # ""
                                        THEN <<<<"[File", ": ", att.filename, "]">>>>
                                        ELSE <<<<"[File", "]">>>>
                                   ELSE <<<<"[", attType, "]">>>>),
                   media |-> <<>>, stickers |-> remembered]
        ELSE IF attType = "share"
             THEN [noMedia EXCEPT !.descs =
                       IF att.url # "" THEN <<<<"[Share", ": ", att.url, "]">>>>
                       ELSE <<<<"[Share", "]">>>>]
        ELSE IF attType = "location"
             THEN [noMedia EXCEPT !.descs = <<<<"[Location: ", att.lat, ", ", att.lon, "]">>>>]
        ELSE IF attType = "contact"
             THEN [noMedia EXCEPT !.descs =
                       IF att.name # "" THEN <<<<"[Contact", ": ", att.name, "]">>>>
                       ELSE <<<<"[Contact", "]">>>>]
        ELSE IF attType # "inline_keyboard"
             THEN [noMedia EXCEPT !.descs = <<<<"[", attType, "]">>>>]
             ELSE noMedia

\* the for loop over attachments; downloads[i] is the outcome for attachments[i]
RECURSIVE ReduceAttachments(_, _, _)
ReduceAttachments(attachments, chatId, downloads) ==
    IF attachments = <<>> THEN [descs |-> <<>>, media |-> <<>>, stickers |-> <<>>]
    ELSE LET first == ReduceAttachment(Head(attachments), chatId, Head(downloads))
             rest == ReduceAttachments(Tail(attachments), chatId, Tail(downloads))
         IN  [descs |-> first.descs \o rest.descs,
              media |-> first.media \o rest.media,
              stickers |-> first.stickers \o rest.stickers]

(***************************************************************************)
(* processIncomingMessage.  A message is [senderId, chatId, chatType,      *)
(* text, mid, attachments, link]; opts holds what the function reads of    *)
(* MaxMonitorOptions (botUserId, botUsername, the account's config and     *)
(* channels.defaults.groupPolicy).  host is the state of the host's        *)
(* pairing collaborator; env says how the calls the function awaits end.   *)
(***************************************************************************)
Truthy(maybeString) == IsSome(maybeString) /\ Get(maybeString) # <<>>
TruthyNumber(maybeNumber) == IsSome(maybeNumber) /\ Get(maybeNumber) # 0
OrElse(maybe, default) == IF IsSome(maybe) THEN Get(maybe) ELSE default

\* Mutant of IsGroupChat: a channel is not treated as a group.
IsGroupChat_ChatOnly(message) == message.chatType = Some("chat")
IsGroupChat(message) == message.chatType \in {Some("chat"), Some("channel")}
RawText(message) == OrElse(message.text, <<>>)

\* String(entry) of an allowFrom entry, a number or a string
AllowEntryString(entry) ==
    IF entry.kind = "number" THEN NumberToString(entry.number) ELSE entry.string
ConfigAllowFrom(opts) ==
    {AllowEntryString(OrElse(opts.allowFrom, <<>>)[i]) :
        i \in DOMAIN OrElse(opts.allowFrom, <<>>)}

\* Mutant of StoreAllowFrom: a failed read lets every sender in.
StoreAllowFrom_FailOpen(host, env) == IF env.storeReadOk THEN host.store ELSE {<<"*">>}
\* readAllowFromStore("max").catch(() => [])
StoreAllowFrom(host, env) == IF env.storeReadOk THEN host.store ELSE {}

Wildcard == <<"*">>
\* effectiveAllowFrom.includes(senderStr) || effectiveAllowFrom.includes("*")
SenderAllowed(effectiveAllowFrom, senderStr) ==
    senderStr \in effectiveAllowFrom \/ Wildcard \in effectiveAllowFrom

\* "Check for bot mention in group chats": the value of wasMentioned
WasMentioned(message, opts) ==
    IF IsGroupChat(message) /\ Truthy(opts.botUsername)
    THEN IF MentionPatternTest(RawText(message), Get(opts.botUsername))
         THEN Some(TRUE)
         ELSE IF /\ IsSome(message.link)
                 /\ Get(message.link).type = "reply"
                 /\ IsSome(Get(message.link).sender)
                 /\ Get(Get(message.link).sender).is_bot
                 /\ Some(Get(Get(message.link).sender).user_id) = opts.botUserId
              THEN Some(TRUE)
              ELSE Some(FALSE)
    ELSE None

\* account.config.groupPolicy ?? defaultGroupPolicy ?? "allowlist"
EffectiveGroupPolicy(opts) ==
    OrElse(opts.groupPolicy, OrElse(opts.defaultGroupPolicy, "allowlist"))

GroupsTable(opts) == OrElse(opts.groups, EmptyMap)
\* chatIdStr in groups || "*" in groups
ChatAllowed(opts, chatIdStr) ==
    chatIdStr \in DOMAIN GroupsTable(opts) \/ Wildcard \in DOMAIN GroupsTable(opts)

\* (groups?.[String(chatId)] ?? groups?.["*"])?.requireMention ?? true
RequireMention(opts, chatIdStr) ==
    LET groups == GroupsTable(opts)
    IN  IF chatIdStr \in DOMAIN groups THEN OrElse(groups[chatIdStr].requireMention, TRUE)
        ELSE IF Wildcard \in DOMAIN groups THEN OrElse(groups[Wildcard].requireMention, TRUE)
             ELSE TRUE

\* Mutant of MentionGateDrops: a group that sets no requireMention does not
\* require a mention.
MentionGateDrops_DefaultOff(opts, chatIdStr, wasMentioned) ==
    LET groups == GroupsTable(opts)
        required == IF chatIdStr \in DOMAIN groups
                    THEN OrElse(groups[chatIdStr].requireMention, FALSE)
                    ELSE IF Wildcard \in DOMAIN groups
                         THEN OrElse(groups[Wildcard].requireMention, FALSE)
                         ELSE FALSE
    IN  required /\ ~OrElse(wasMentioned, FALSE)

\* requireMention && !wasMentioned
MentionGateDrops(opts, chatIdStr, wasMentioned) ==
    RequireMention(opts, chatIdStr) /\ ~OrElse(wasMentioned, FALSE)

\* Mutant of EmptyMessage: the media test is inverted.
EmptyMessage_WrongMediaTest(effectiveText, hasMedia) == effectiveText = <<>> /\ hasMedia

\* !effectiveText && !hasMedia
EmptyMessage(effectiveText, hasMedia) == effectiveText = <<>> /\ ~hasMedia

\* Mutant of PairingReplyDue: the reply is sent on every request.
PairingReplyDue_Always(created) == TRUE

\* if (created) { ... sendMaxMessage(pairingReply) ... }
PairingReplyDue(created) == created

\* Mutant of DmGateAllows: the host's pairing store is not consulted.
DmGateAllows_ConfigOnly(opts, host, env, senderStr) ==
    SenderAllowed(ConfigAllowFrom(opts), senderStr)

\* const allowed = ... over [...configAllowFrom, ...storeAllowFrom]
DmGateAllows(opts, host, env, senderStr) ==
    SenderAllowed(ConfigAllowFrom(opts) \cup StoreAllowFrom(host, env), senderStr)

\* Mutant of GroupPolicyBlocks: the membership check is skipped when the bot
\* was mentioned.
GroupPolicyBlocks_MentionBypass(opts, chatIdStr, wasMentioned) ==
    \/ EffectiveGroupPolicy(opts) = "disabled"
    \/ /\ EffectiveGroupPolicy(opts) = "allowlist"
       /\ ~ChatAllowed(opts, chatIdStr)
       /\ ~OrElse(wasMentioned, FALSE)

\* "Group policy": the two returns before the mention check
GroupPolicyBlocks(opts, chatIdStr, wasMentioned) ==
    \/ EffectiveGroupPolicy(opts) = "disabled"
    \/ EffectiveGroupPolicy(opts) = "allowlist" /\ ~ChatAllowed(opts, chatIdStr)

\* what one call of processIncomingMessage does, as a record of its effects
NoEffects ==
    [stage |-> "none", effectiveText |-> <<>>, attachmentText |-> <<>>,
     hasMedia |-> FALSE, stickers |-> <<>>, wasMentioned |-> None,
     storeReads |-> 0, upserts |-> <<>>, created |-> FALSE, pairingReplies |-> <<>>,
     routeResolved |-> FALSE, typing |-> <<>>, forwarded |-> FALSE, ctx |-> None,
     replyTargets |-> <<>>]

processIncomingMessage(message, opts, host, env) ==
    LET senderId == message.senderId
        chatId == message.chatId
        isGroup == IsGroupChat(message)
        rawText == RawText(message)
        messageId == message.mid
        reduced == ReduceAttachments(message.attachments, chatId, env.downloads)
        attachmentText == JoinWithSpace(reduced.descs)
        hasMedia == Len(reduced.media) > 0
        effectiveText == IF Trim(rawText) # <<>> THEN Trim(rawText) ELSE attachmentText
        replyToId == IF IsSome(message.link) /\ Get(message.link).type = "reply"
                     THEN Get(message.link).mid ELSE None
        wasMentioned == WasMentioned(message, opts)
        dmPolicy == OrElse(opts.dmPolicy, "pairing")
        senderStr == StringOf(senderId)
        chatIdStr == StringOf(IF IsSome(chatId) THEN chatId ELSE senderId)
        created == senderStr \notin host.pending
        bodyForAgent == IF attachmentText # <<>>
                        THEN IF Trim(rawText) # <<>>
                             THEN Trim(rawText) \o <<"\n">> \o attachmentText
                             ELSE attachmentText
                        ELSE rawText
        seen == [NoEffects EXCEPT !.effectiveText = effectiveText,
                                  !.attachmentText = attachmentText,
                                  !.hasMedia = hasMedia,
                                  !.stickers = reduced.stickers]
        gated == [seen EXCEPT !.wasMentioned = wasMentioned]
        read == [gated EXCEPT !.storeReads = 1]
        ctx == [Body |-> bodyForAgent, BodyForAgent |-> bodyForAgent,
                RawBody |-> rawText,
                CommandBody |-> IF rawText # <<>> THEN rawText ELSE attachmentText,
                From |-> senderStr, To |-> chatIdStr,
                ChatType |-> IF isGroup THEN "group" ELSE "direct",
                SenderId |-> IF IsSome(senderId) THEN Some(senderStr) ELSE None,
                WasMentioned |-> IF isGroup THEN wasMentioned ELSE None,
                MessageSid |-> messageId, ReplyToId |-> replyToId,
                MediaPaths |-> reduced.media]
        deliver == [chatId |-> chatIdStr, replyToId |-> StripEditedSuffix(messageId)]
        forward(base) ==
            [base EXCEPT !.stage = "forwarded", !.routeResolved = TRUE,
                         !.typing = IF IsSome(chatId) THEN <<Get(chatId)>> ELSE <<>>,
                         !.forwarded = TRUE, !.ctx = Some(ctx),
                         !.replyTargets = [i \in 1..env.deliveries |-> deliver]]
        groupGate(base) ==
            IF GroupPolicyBlocks(opts, StringOf(chatId), wasMentioned)
            THEN [base EXCEPT !.stage = "group_blocked"]
            ELSE IF MentionGateDrops(opts, StringOf(chatId), wasMentioned)
                 THEN [base EXCEPT !.stage = "not_mentioned"]
                 ELSE forward(base)
    IN  IF EmptyMessage(effectiveText, hasMedia) THEN [seen EXCEPT !.stage = "empty"]
        ELSE IF isGroup THEN groupGate(gated)
        ELSE IF dmPolicy = "disabled" THEN [gated EXCEPT !.stage = "dm_disabled"]
        ELSE IF dmPolicy = "open" THEN forward(gated)
        ELSE IF DmGateAllows(opts, host, env, senderStr) THEN forward(read)
        ELSE IF dmPolicy # "pairing" THEN [read EXCEPT !.stage = "dm_not_allowed"]
        ELSE [read EXCEPT !.stage = "pairing",
                          !.upserts = <<senderStr>>,
                          !.created = created,
                          !.pairingReplies =
                              IF PairingReplyDue(created)
                              THEN <<[chatId |-> chatIdStr, sent |-> env.sendOk]>>
                              ELSE <<>>]

(***************************************************************************)
(* dispatchUpdate.  An update is [update_type, timestamp, message,         *)
(* callback, user, chat_id], the last four optional.  The result records   *)
(* the calls made: fire-and-forget chat actions, the fetch of an edited    *)
(* message, the message handed to processIncomingMessage and its effects.  *)
(***************************************************************************)
NoDispatch ==
    [handled |-> FALSE, statusInbound |-> FALSE, actions |-> <<>>, fetches |-> <<>>,
     normalizer |-> None, result |-> NoEffects]

\* "Mark message as read + show typing indicator"
ReadActions(message) ==
    IF TruthyNumber(message.chatId)
    THEN <<[chatId |-> Get(message.chatId), action |-> "mark_seen"],
           [chatId |-> Get(message.chatId), action |-> "typing_on"]>>
    ELSE <<>>

\* opts.botUserId && update.message.sender?.user_id === opts.botUserId
FromBotItself(message, opts) ==
    TruthyNumber(opts.botUserId) /\ message.senderId = opts.botUserId

Normalize(message, opts, host, env, base) ==
    [base EXCEPT !.normalizer = Some(message),
                 !.result = processIncomingMessage(message, opts, host, env)]

\* case "message_edited": the message after the mid suffix and the fetch
NeedsFetch(message) ==
    /\ Trim(RawText(message)) = <<>>
    /\ message.mid # <<>>
    /\ TruthyNumber(message.chatId)
\* Mutant of EditedMessage: what the fetch returned is not used.
EditedMessage_IgnoresFetch(message, timestamp, env) ==
    [message EXCEPT !.mid = EditedMid(message.mid, timestamp)]
EditedMessage(message, timestamp, env) ==
    LET suffixed == [message EXCEPT !.mid = EditedMid(message.mid, timestamp)]
        fetchedMsg == env.fetch.message
    IN  IF /\ NeedsFetch(message)
           /\ env.fetch.outcome = "ok"
           /\ IsSome(fetchedMsg)
           /\ Truthy(Get(fetchedMsg).text)
        THEN [suffixed EXCEPT
                 !.text = Get(fetchedMsg).text,
                 !.attachments = IF Len(Get(fetchedMsg).attachments) > 0
                                 THEN Get(fetchedMsg).attachments
                                 ELSE message.attachments]
        ELSE suffixed

\* Mutant of CallbackMessage: the recipient is always the pressing user.
CallbackMessage_ToPresser(callback) ==
    [senderId |-> Some(callback.userId),
     chatId |-> Some(callback.userId),
     chatType |-> None,
     text |-> Some(OrElse(callback.payload, <<>>)),
     mid |-> callback.callback_id,
     attachments |-> <<>>,
     link |-> None]
\* processCallback: the message synthesised from a callback press
CallbackMessage(callback) ==
    [senderId |-> Some(callback.userId),
     chatId |-> IF IsSome(callback.message) THEN Get(callback.message).chatId
                ELSE Some(callback.userId),
     chatType |-> IF IsSome(callback.message) THEN Get(callback.message).chatType
                  ELSE None,
     text |-> Some(OrElse(callback.payload, <<>>)),
     mid |-> callback.callback_id,
     attachments |-> <<>>,
     link |-> None]

\* processBotStarted: the synthesised /start message
BotStartedMessage(userId, chatId, now) ==
    [senderId |-> Some(userId),
     chatId |-> IF IsSome(chatId) THEN chatId ELSE Some(userId),
     chatType |-> Some("dialog"),
     text |-> Some(<<"/", "s", "t", "a", "r", "t">>),
     mid |-> <<"bot_started_">> \o NumberToString(userId) \o <<"_">> \o NumberToString(now),
     attachments |-> <<>>,
     link |-> None]

\* the update kinds that have a case of their own doing more than logging
HandledKinds == {"message_created", "message_callback", "message_edited", "bot_started"}

\* Mutant of SwitchCase: bot_added is treated as bot_started.
SwitchCase_BotAddedStarts(update_type) ==
    IF update_type \in HandledKinds \cup {"bot_added"}
    THEN (IF update_type = "bot_added" THEN "bot_started" ELSE update_type)
    ELSE "log_only"
\* switch (update.update_type): the branch taken; bot_added, bot_removed and
\* default only log
SwitchCase(update_type) ==
    IF update_type \in HandledKinds THEN update_type ELSE "log_only"

dispatchUpdate(update, opts, host, env) ==
    LET inbound == [NoDispatch EXCEPT !.handled = TRUE, !.statusInbound = TRUE]
        branch == SwitchCase(update.update_type)
    IN  CASE branch = "message_created" ->
                 IF ~IsSome(update.message) THEN NoDispatch
                 ELSE IF FromBotItself(Get(update.message), opts) THEN NoDispatch
                 ELSE Normalize(Get(update.message), opts, host, env,
                                [inbound EXCEPT !.actions = ReadActions(Get(update.message))])
          [] branch = "message_callback" ->
                 IF ~IsSome(update.callback) THEN NoDispatch
                 ELSE IF Trim(OrElse(Get(update.callback).payload, <<>>)) = <<>>
                      THEN inbound
                      ELSE Normalize(CallbackMessage(Get(update.callback)),
                                     opts, host, env, inbound)
          [] branch = "message_edited" ->
                 IF ~IsSome(update.message) THEN NoDispatch
                 ELSE IF FromBotItself(Get(update.message), opts) THEN NoDispatch
                 ELSE LET message == Get(update.message)
                      IN  Normalize(EditedMessage(message, update.timestamp, env),
                                    opts, host, env,
                                    [inbound EXCEPT
                                        !.actions = ReadActions(message),
                                        !.fetches = IF NeedsFetch(message)
                                                    THEN <<[chatId |-> Get(message.chatId),
                                                            mid |-> message.mid]>>
                                                    ELSE <<>>])
          [] branch = "bot_started" ->
                 IF ~IsSome(update.user) THEN NoDispatch
                 ELSE Normalize(BotStartedMessage(Get(update.user), update.chat_id, env.now),
                                opts, host, env, inbound)
          [] OTHER -> NoDispatch

(***************************************************************************)
(* sticker-cache.ts and the host's pairing collaborator.                   *)
(***************************************************************************)
\* rememberStickerCode, applied to the codes one message produced, in order
RECURSIVE RememberStickers(_, _)
RememberStickers(cache, stickers) ==
    IF stickers = <<>> THEN cache
    ELSE RememberStickers(
             [byChat |-> MapSet(cache.byChat, Head(stickers).chat, Head(stickers).code),
              global |-> Some(Head(stickers).code)],
             Tail(stickers))

CountOf(map, key) == IF key \in DOMAIN map THEN map[key] ELSE 0
\* history counters stop at MaxCount ("MaxCount or more")
Increment(map, key) ==
    MapSet(map, key, IF CountOf(map, key) < MaxCount THEN CountOf(map, key) + 1
                     ELSE MaxCount)

\* upsertPairingRequest: a pending request is kept, a new one is created
PendingAfterUpserts(pending, upserts) == pending \cup {upserts[i] : i \in DOMAIN upserts}

\* history of the direct messages with content normalised so far: who sent
\* one, and per sender the pairing requests created and pairing replies sent
NoHistory == [created |-> EmptyMap, replies |-> EmptyMap, senders |-> {}]

HistoryAfter(history, dispatch) ==
    IF ~IsSome(dispatch.normalizer) THEN history
    ELSE LET message == Get(dispatch.normalizer)
             result == dispatch.result
             senderStr == StringOf(message.senderId)
         IN  [created |-> IF Len(result.upserts) > 0 /\ result.created
                          THEN Increment(history.created, result.upserts[1])
                          ELSE history.created,
              replies |-> IF Len(result.pairingReplies) > 0
                          THEN Increment(history.replies, senderStr)
                          ELSE history.replies,
              senders |-> IF /\ ~IsGroupChat(message)
                             /\ (result.effectiveText # <<>> \/ result.hasMedia)
                          THEN history.senders \cup {senderStr}
                          ELSE history.senders]

\* one update handed to dispatchUpdate (by the polling loop or by a webhook
\* target's onUpdate), run to completion
DispatchUpdate(update, env) ==
    LET host == [store |-> pairingStore, pending |-> pairingPending]
    IN  \E dispatch \in {dispatchUpdate(update, monitorOpts, host, env)} :
        /\ last' = Some([update |-> update, env |-> env, host |-> host,
                         dispatch |-> dispatch])
        /\ pairingPending' = PendingAfterUpserts(pairingPending, dispatch.result.upserts)
        /\ stickerCache' = RememberStickers(stickerCache, dispatch.result.stickers)
        /\ dmHistory' = HistoryAfter(dmHistory, dispatch)
        /\ UNCHANGED <<monitorOpts, pairingStore, pathVars, whVars, rcvVars, cfgVars, outVars>>

\* host: the operator approves a pending pairing request
ApprovePairing(id) ==
    /\ id \in pairingPending
    /\ pairingStore' = pairingStore \cup {id}
    /\ pairingPending' = pairingPending \ {id}
    /\ UNCHANGED <<monitorOpts, stickerCache, last, dmHistory, pathVars, whVars,
                   rcvVars, cfgVars, outVars>>

(***************************************************************************)
(* Inputs of the message specifications.                                   *)
(***************************************************************************)
Text(chars) == Some(chars)
Hi == <<"h", "i">>
BotName == <<"b", "o", "t">>
BotId == 9
PlainMid == <<"m", "1">>

BaseOpts ==
    [botUserId |-> Some(BotId), botUsername |-> Some(BotName),
     dmPolicy |-> None, allowFrom |-> None,
     groupPolicy |-> None, defaultGroupPolicy |-> None, groups |-> None]

BaseMessage ==
    [senderId |-> Some(1), chatId |-> Some(50), chatType |-> Some("dialog"),
     text |-> Text(Hi), mid |-> PlainMid, attachments |-> <<>>, link |-> None]

MessageCreated(message) ==
    [update_type |-> "message_created", timestamp |-> 0, message |-> Some(message),
     callback |-> None, user |-> None, chat_id |-> None]

BaseEnv ==
    [downloads |-> <<>>, storeReadOk |-> TRUE, sendOk |-> TRUE, deliveries |-> 1,
     fetch |-> [outcome |-> "throws", message |-> None], now |-> 0]

\* ---- direct messages
NumberEntry(n) == [kind |-> "number", number |-> n, string |-> <<>>]
StringEntry(str) == [kind |-> "string", number |-> 0, string |-> str]
SenderIds == 1..MaxSenderId
DmOpts ==
    {[BaseOpts EXCEPT !.dmPolicy = policy, !.allowFrom = allowFrom] :
        policy \in {None, Some("pairing"), Some("allowlist"), Some("open"), Some("disabled")},
        allowFrom \in {None,
                       Some(<<NumberEntry(1), StringEntry(<<"x">>)>>),
                       Some(<<StringEntry(Wildcard)>>)}}
DmStores == {{}, {<<"2">>}, {Wildcard}}
DmMessages ==
    {[BaseMessage EXCEPT !.senderId = Some(sender)] : sender \in SenderIds}
    \cup {[BaseMessage EXCEPT !.text = text] : text \in {Text(<<" ">>), None}}
    \cup {[BaseMessage EXCEPT !.chatId = None, !.chatType = None]}
DmUpdates == {MessageCreated(message) : message \in DmMessages}
DmEnvs ==
    {BaseEnv, [BaseEnv EXCEPT !.storeReadOk = FALSE], [BaseEnv EXCEPT !.sendOk = FALSE]}

DmInit ==
    /\ rcvPc = "idle" /\ rcvConfig = None /\ aborted = FALSE /\ marker = None
    /\ apiMarker = 0 /\ sentMarker = None /\ resp = NoResp /\ batchIdx = 0
    /\ cycleLog = <<>> /\ failures = 0 /\ rcvUnregister = None /\ rcvLogged = {}
    /\ cfgPc = "idle" /\ cfgArg = None /\ cfgResult = None
    /\ subscribed = FALSE /\ dlv = NoDeliveries /\ tmpFiles = EmptyMap /\ clock = 1
    /\ pathPc = "idle" /\ pathArg = None /\ urlArg = None
    /\ pathOnce = <<>> /\ pathTwice = <<>>
    /\ webhookTargets = EmptyMap /\ nextTargetId = 0 /\ unregisterFns = {}
    /\ liveTargets = {} /\ req = IdleReq
    /\ monitorOpts \in DmOpts
    /\ pairingStore \in DmStores
    /\ pairingPending = {}
    /\ stickerCache = [byChat |-> EmptyMap, global |-> None]
    /\ last = None
    /\ dmHistory = NoHistory

\* the first update dispatched after start
DispatchFirst(update, env) == last = None /\ DispatchUpdate(update, env)

\* ---- group and channel messages
GroupEntry(requireMention) == [requireMention |-> requireMention]
Chat10 == <<"1", "0">>
GroupTables ==
    {None,
     Some(EmptyMap),
     Some([k \in {Chat10} |-> GroupEntry(None)]),
     Some([k \in {Chat10} |-> GroupEntry(Some(FALSE))]),
     Some([k \in {Wildcard} |-> GroupEntry(None)]),
     Some([k \in {Chat10, Wildcard} |->
              IF k = Chat10 THEN GroupEntry(Some(TRUE)) ELSE GroupEntry(Some(FALSE))])}
GroupOpts ==
    {[BaseOpts EXCEPT !.groupPolicy = policy, !.defaultGroupPolicy = default,
                      !.groups = groups, !.botUsername = username, !.botUserId = userId] :
        policy \in {None, Some("allowlist"), Some("open"), Some("disabled")},
        default \in {None, Some("open")},
        groups \in GroupTables,
        username \in {Some(BotName), None},
        userId \in {Some(BotId), None}}
ReplyTo(isBot, userId) ==
    Some([type |-> "reply", sender |-> Some([is_bot |-> isBot, user_id |-> userId]),
          mid |-> Some(<<"m", "0">>)])
GroupLinks ==
    {None, ReplyTo(TRUE, BotId), ReplyTo(FALSE, 1),
     Some([type |-> "forward", sender |-> Some([is_bot |-> TRUE, user_id |-> BotId]),
           mid |-> Some(<<"m", "0">>)])}
GroupTexts ==
    {Text(Hi), Text(<<"@", "b", "o", "t", " ", "h", "i">>), Text(<<"x", " ", "@", "B", "O", "T">>), Text(<<"@", "b", "o", "t", "x">>)}
GroupMessages ==
    {[BaseMessage EXCEPT !.chatId = Some(chatId), !.chatType = Some(chatType),
                         !.text = text, !.link = link] :
        chatId \in {10, 11}, chatType \in {"chat", "channel"},
        text \in GroupTexts, link \in GroupLinks}
GroupUpdates == {MessageCreated(message) : message \in GroupMessages}
GroupEnvs == {BaseEnv}

GroupInit ==
    /\ rcvPc = "idle" /\ rcvConfig = None /\ aborted = FALSE /\ marker = None
    /\ apiMarker = 0 /\ sentMarker = None /\ resp = NoResp /\ batchIdx = 0
    /\ cycleLog = <<>> /\ failures = 0 /\ rcvUnregister = None /\ rcvLogged = {}
    /\ cfgPc = "idle" /\ cfgArg = None /\ cfgResult = None
    /\ subscribed = FALSE /\ dlv = NoDeliveries /\ tmpFiles = EmptyMap /\ clock = 1
    /\ pathPc = "idle" /\ pathArg = None /\ urlArg = None
    /\ pathOnce = <<>> /\ pathTwice = <<>>
    /\ webhookTargets = EmptyMap /\ nextTargetId = 0 /\ unregisterFns = {}
    /\ liveTargets = {} /\ req = IdleReq
    /\ monitorOpts \in GroupOpts
    /\ pairingStore = {}
    /\ pairingPending = {}
    /\ stickerCache = [byChat |-> EmptyMap, global |-> None]
    /\ last = None
    /\ dmHistory = NoHistory

\* ---- message content: text and attachments
Attachment(type, code, url) ==
    [type |-> type, code |-> code, url |-> url, filename |-> "", name |-> "",
     lat |-> "", lon |-> ""]
ContentAttachments ==
    {Attachment("sticker", "", "http://u"),
     Attachment("sticker", "c1", ""),
     Attachment("image", "", "http://u"),
     Attachment("inline_keyboard", "", ""),
     [Attachment("file", "", "") EXCEPT !.filename = "f.txt"]}
RECURSIVE SeqsUpTo(_, _)
SeqsUpTo(elements, n) ==
    IF n = 0 THEN {<<>>}
    ELSE LET shorter == SeqsUpTo(elements, n - 1)
         IN  shorter \cup {Append(q, e) : q \in shorter, e \in elements}
ContentOpts ==
    {BaseOpts,
     [BaseOpts EXCEPT !.dmPolicy = Some("open"), !.groupPolicy = Some("open"),
                      !.groups = Some([k \in {Wildcard} |-> GroupEntry(Some(FALSE))])]}
ContentMessages ==
    {[BaseMessage EXCEPT !.chatType = Some(chatType), !.text = text,
                         !.attachments = attachments] :
        chatType \in {"dialog", "chat"},
        text \in {None, Text(<<" ">>), Text(Hi)},
        attachments \in SeqsUpTo(ContentAttachments, MaxAttachments)}
ContentUpdates == {MessageCreated(message) : message \in ContentMessages}
ContentEnvs ==
    {[BaseEnv EXCEPT !.downloads = downloads] :
        downloads \in [1..MaxAttachments -> BOOLEAN]}

ContentInit ==
    /\ rcvPc = "idle" /\ rcvConfig = None /\ aborted = FALSE /\ marker = None
    /\ apiMarker = 0 /\ sentMarker = None /\ resp = NoResp /\ batchIdx = 0
    /\ cycleLog = <<>> /\ failures = 0 /\ rcvUnregister = None /\ rcvLogged = {}
    /\ cfgPc = "idle" /\ cfgArg = None /\ cfgResult = None
    /\ subscribed = FALSE /\ dlv = NoDeliveries /\ tmpFiles = EmptyMap /\ clock = 1
    /\ pathPc = "idle" /\ pathArg = None /\ urlArg = None
    /\ pathOnce = <<>> /\ pathTwice = <<>>
    /\ webhookTargets = EmptyMap /\ nextTargetId = 0 /\ unregisterFns = {}
    /\ liveTargets = {} /\ req = IdleReq
    /\ monitorOpts \in ContentOpts
    /\ pairingStore = {}
    /\ pairingPending = {}
    /\ stickerCache = [byChat |-> EmptyMap, global |-> None]
    /\ last = None
    /\ dmHistory = NoHistory

\* ---- edited messages
EditedMids ==
    {PlainMid, <<"a", "_", "e", "d", "i", "t", "e", "d", "_", "5">>, <<"a", "_", "e", "d", "i", "t", "e", "d", "_", "x">>, <<"_", "e", "d", "i", "t", "e", "d", "_">>, <<"5">>}
MessageEdited(message, timestamp) ==
    [update_type |-> "message_edited", timestamp |-> timestamp,
     message |-> Some(message), callback |-> None, user |-> None, chat_id |-> None]
\* updates of the kinds that are only logged: with or without a message, a
\* user and a chat id
OtherKinds ==
    {"bot_added", "bot_removed", "message_removed", "message_reaction_created", "user_added"}
OtherUpdates ==
    {[update_type |-> kind, timestamp |-> 0, message |-> message, callback |-> None,
      user |-> user, chat_id |-> chat_id] :
        kind \in OtherKinds, message \in {None, Some(BaseMessage)},
        user \in {None, Some(1)}, chat_id \in {None, Some(50)}}
EditedUpdates ==
    {MessageEdited([BaseMessage EXCEPT !.mid = mid, !.text = text], timestamp) :
        mid \in EditedMids, text \in {Text(Hi), None}, timestamp \in 0..MaxTimestamp}
    \cup {MessageEdited([BaseMessage EXCEPT !.text = text, !.chatId = chatId,
                                            !.attachments = attachments], 0) :
              text \in {None, Text(<<" ">>)}, chatId \in {Some(50), Some(0), None},
              attachments \in {<<>>, <<Attachment("share", "", "")>>}}
    \cup {MessageCreated([BaseMessage EXCEPT !.mid = mid]) : mid \in EditedMids}
    \cup OtherUpdates
EditedEnvs ==
    {[BaseEnv EXCEPT !.deliveries = deliveries, !.fetch = fetch] :
        deliveries \in 0..MaxDeliveries,
        fetch \in {[outcome |-> "throws", message |-> None],
                   [outcome |-> "ok", message |-> None],
                   [outcome |-> "ok",
                    message |-> Some([text |-> Text(<<"o", "k">>), attachments |-> <<>>])],
                   [outcome |-> "ok",
                    message |-> Some([text |-> Text(<<>>),
                                      attachments |-> <<Attachment("contact", "", "")>>])],
                   [outcome |-> "ok",
                    message |-> Some([text |-> Text(<<" ", "k">>),
                                      attachments |-> <<Attachment("contact", "", "")>>])]}}

EditedInit ==
    /\ rcvPc = "idle" /\ rcvConfig = None /\ aborted = FALSE /\ marker = None
    /\ apiMarker = 0 /\ sentMarker = None /\ resp = NoResp /\ batchIdx = 0
    /\ cycleLog = <<>> /\ failures = 0 /\ rcvUnregister = None /\ rcvLogged = {}
    /\ cfgPc = "idle" /\ cfgArg = None /\ cfgResult = None
    /\ subscribed = FALSE /\ dlv = NoDeliveries /\ tmpFiles = EmptyMap /\ clock = 1
    /\ pathPc = "idle" /\ pathArg = None /\ urlArg = None
    /\ pathOnce = <<>> /\ pathTwice = <<>>
    /\ webhookTargets = EmptyMap /\ nextTargetId = 0 /\ unregisterFns = {}
    /\ liveTargets = {} /\ req = IdleReq
    /\ monitorOpts \in {[BaseOpts EXCEPT !.dmPolicy = Some("open"), !.botUserId = userId] :
                          userId \in {Some(BotId), Some(1)}}
    /\ pairingStore = {}
    /\ pairingPending = {}
    /\ stickerCache = [byChat |-> EmptyMap, global |-> None]
    /\ last = None
    /\ dmHistory = NoHistory

\* ---- inbound updates of an account started by gateway.startAccount
\* what getMe answers for the bot's own account
Me == [user_id |-> BotId, username |-> BotName]
\* gateway.startAccount: the probe (getMe, 3 s timeout) gives the bot's id
\* and name; when it fails the account is started without them
StartAccountOpts(account, probe) ==
    [account EXCEPT
        !.botUserId = IF IsSome(probe) THEN Some(Get(probe).user_id) ELSE None,
        !.botUsername = IF IsSome(probe) /\ Get(probe).username # <<>>
                        THEN Some(Get(probe).username) ELSE None]
\* the probe's outcomes: it failed, or it answered (with or without a name)
Probes == {None, Some(Me), Some([Me EXCEPT !.username = <<>>])}
InboundAccounts ==
    {BaseOpts,
     [BaseOpts EXCEPT !.dmPolicy = Some("open"), !.groupPolicy = Some("disabled")],
     [BaseOpts EXCEPT !.dmPolicy = Some("disabled"), !.groupPolicy = Some("open"),
                      !.groups = Some([k \in {Wildcard} |-> GroupEntry(Some(FALSE))])]}
InboundMessages ==
    {[BaseMessage EXCEPT !.senderId = Some(sender), !.chatId = Some(10),
                         !.chatType = chatType] :
        sender \in {1, BotId}, chatType \in {Some("dialog"), Some("chat"), Some("channel")}}
\* a button press: [callback_id, userId, payload, message], the last two
\* optional; message is the recipient of the message that carried the keyboard
Callback(payload, message) ==
    [callback_id |-> <<"c", "b">>, userId |-> 1, payload |-> payload, message |-> message]
MessageCallback(callback) ==
    [update_type |-> "message_callback", timestamp |-> 0, message |-> None,
     callback |-> callback, user |-> None, chat_id |-> None]
Go == <<"g", "o">>
CallbackPayloads == {None, Some(<<>>), Some(<<" ">>), Some(Go)}
CallbackRecipients ==
    {None} \cup {Some([chatId |-> Some(10), chatType |-> Some(chatType)]) :
                    chatType \in {"dialog", "chat", "channel"}}
InboundUpdates ==
    {MessageCreated(message) : message \in InboundMessages}
    \cup {MessageEdited(message, 5) : message \in InboundMessages}
    \cup {MessageCallback(Some(Callback(payload, message))) :
              payload \in CallbackPayloads, message \in CallbackRecipients}
    \cup {MessageCallback(None)}
InboundEnvs == {[BaseEnv EXCEPT !.deliveries = deliveries] : deliveries \in 0..MaxDeliveries}

InboundInit ==
    /\ rcvPc = "idle" /\ rcvConfig = None /\ aborted = FALSE /\ marker = None
    /\ apiMarker = 0 /\ sentMarker = None /\ resp = NoResp /\ batchIdx = 0
    /\ cycleLog = <<>> /\ failures = 0 /\ rcvUnregister = None /\ rcvLogged = {}
    /\ cfgPc = "idle" /\ cfgArg = None /\ cfgResult = None
    /\ subscribed = FALSE /\ dlv = NoDeliveries /\ tmpFiles = EmptyMap /\ clock = 1
    /\ pathPc = "idle" /\ pathArg = None /\ urlArg = None
    /\ pathOnce = <<>> /\ pathTwice = <<>>
    /\ webhookTargets = EmptyMap /\ nextTargetId = 0 /\ unregisterFns = {}
    /\ liveTargets = {} /\ req = IdleReq
    /\ monitorOpts \in {StartAccountOpts(account, probe) :
                          account \in InboundAccounts, probe \in Probes}
    /\ pairingStore = {}
    /\ pairingPending = {}
    /\ stickerCache = [byChat |-> EmptyMap, global |-> None]
    /\ last = None
    /\ dmHistory = NoHistory

(***************************************************************************)
(* The update receiver (src/unnamed/part_000): startMaxPolling,            *)
(* startMaxPollingLoop and startMaxWebhook.  Every action runs from one    *)
(* await to the next.  An update of a batch is [n, throws]: its position   *)
(* and whether its dispatch throws.                                        *)
(***************************************************************************)
Batches ==
    {[i \in 1..Len(q) |-> [n |-> i, throws |-> q[i]]] : q \in SeqsUpTo(BOOLEAN, MaxBatch)}
OtherTarget == [id |-> 0, path |-> <<"/", "h">>, secret |-> None]
HookUrl == Some([blank |-> FALSE, parses |-> TRUE, pathname |-> <<"/", "h", "/">>])
BlankUrl == Some([blank |-> TRUE, parses |-> FALSE, pathname |-> <<>>])
ReceiverConfigs ==
    {[webhookUrl |-> None, webhookPath |-> None, webhookSecret |-> None],
     [webhookUrl |-> BlankUrl, webhookPath |-> Some(<<"h">>), webhookSecret |-> None],
     [webhookUrl |-> HookUrl, webhookPath |-> None, webhookSecret |-> None],
     [webhookUrl |-> HookUrl, webhookPath |-> Some(<<"h">>), webhookSecret |-> Some("s1")]}

\* Boolean(account.config.webhookUrl?.trim())
UseWebhook(config) == IsSome(config.webhookUrl) /\ ~Get(config.webhookUrl).blank

\* Mutant of AdoptMarker: the response's marker is taken even when null.
AdoptMarker_ResetOnNull(current, respMarker) == respMarker
\* if (resp.marker != null) marker = resp.marker
AdoptMarker(current, respMarker) == IF IsSome(respMarker) THEN respMarker ELSE current

\* Mutant of AfterDispatch: no try/catch around the dispatch of one update.
AfterDispatch_NoInnerCatch(throws) == IF throws THEN "outer_catch" ELSE "next_update"
\* try { await dispatchUpdate(update, opts) } catch (err) { log?.error(...) }
AfterDispatch(throws) == "next_update"

\* Mutant of LoopContinues: the while loop does not look at the signal.
LoopContinues_Always(signal) == TRUE
\* while (!abortSignal.aborted)
LoopContinues(signal) == ~signal

\* Mutant of AfterPollError: the loop gives up after a failure.
AfterPollError_GivesUp(signal) == "stopped"
\* catch (err) { if (abortSignal.aborted) break; log; await sleep(3000) }
AfterPollError(signal) == IF signal THEN "stopped" ELSE "backoff"

\* while (!abortSignal.aborted) { ... await api.getUpdates({marker: nextMarker ?? undefined})
EnterLoop(nextMarker) ==
    IF LoopContinues(aborted)
    THEN rcvPc' = "request" /\ sentMarker' = Some(nextMarker)
    ELSE rcvPc' = "stopped" /\ sentMarker' = sentMarker

\* for (const update of updates) { if (abortSignal.aborted) break; ...: the
\* loop arriving at position i
ForLoopAt(updates, i, nextMarker, log) ==
    IF i <= Len(updates) /\ ~aborted
    THEN /\ rcvPc' = "dispatching"
         /\ batchIdx' = i
         /\ cycleLog' = Append(log, [event |-> "start", n |-> updates[i].n])
         /\ sentMarker' = sentMarker
    ELSE /\ batchIdx' = 0
         /\ cycleLog' = log
         /\ EnterLoop(nextMarker)

ReceiverInit ==
    /\ pathPc = "idle" /\ pathArg = None /\ urlArg = None
    /\ pathOnce = <<>> /\ pathTwice = <<>>
    /\ monitorOpts = None /\ pairingStore = {} /\ pairingPending = {}
    /\ stickerCache = None /\ last = None /\ dmHistory = None
    /\ cfgPc = "idle" /\ cfgArg = None /\ cfgResult = None
    /\ subscribed = FALSE /\ dlv = NoDeliveries /\ tmpFiles = EmptyMap /\ clock = 1
    /\ rcvConfig \in ReceiverConfigs
    /\ \E other \in {FALSE} \cup {UseWebhook(rcvConfig)} :
          /\ webhookTargets = IF other THEN RegistryAfterRegister(EmptyMap, OtherTarget)
                              ELSE EmptyMap
          /\ liveTargets = IF other
                           THEN {[id |-> 0, rawPath |-> OtherTarget.path, secret |-> None]}
                           ELSE {}
    /\ nextTargetId = 1 /\ unregisterFns = {} /\ req = IdleReq
    /\ rcvPc = "start"
    /\ aborted = FALSE
    /\ marker = None
    /\ apiMarker = 0
    /\ sentMarker = None
    /\ resp = NoResp
    /\ batchIdx = 0
    /\ cycleLog = <<>>
    /\ failures = 0
    /\ rcvUnregister = None
    /\ rcvLogged = {}

\* startMaxPolling up to the first await of the mode it selects
StartMaxPolling ==
    /\ rcvPc = "start"
    /\ IF UseWebhook(rcvConfig)
       THEN LET key == normalizeWebhookPath(
                           resolveMaxWebhookPath(rcvConfig.webhookPath, rcvConfig.webhookUrl))
                normalizedTarget == [id |-> nextTargetId, path |-> key,
                                     secret |-> rcvConfig.webhookSecret]
            IN  /\ webhookTargets' = RegistryAfterRegister(webhookTargets, normalizedTarget)
                /\ unregisterFns' = unregisterFns \cup {[id |-> nextTargetId, key |-> key]}
                /\ liveTargets' = liveTargets \cup
                       {[id |-> nextTargetId, rawPath |-> key,
                         secret |-> rcvConfig.webhookSecret]}
                /\ rcvUnregister' = Some([id |-> nextTargetId, key |-> key])
                /\ nextTargetId' = nextTargetId + 1
                /\ rcvPc' = "subscribing"
                /\ UNCHANGED <<marker, sentMarker>>
       ELSE /\ marker' = None
            /\ EnterLoop(None)
            /\ UNCHANGED <<webhookTargets, unregisterFns, liveTargets, rcvUnregister,
                           nextTargetId>>
    /\ UNCHANGED <<rcvConfig, aborted, apiMarker, resp, batchIdx, cycleLog, failures,
                   rcvLogged, req, pathVars, msgVars, cfgVars, outVars>>

\* the host raises the abort signal
Abort ==
    /\ rcvPc \notin {"idle", "stopped", "returned", "threw"}
    /\ ~aborted
    /\ aborted' = TRUE
    /\ UNCHANGED <<rcvPc, rcvConfig, marker, apiMarker, sentMarker, resp, batchIdx,
                   cycleLog, failures, rcvUnregister, rcvLogged, pathVars, whVars,
                   msgVars, cfgVars, outVars>>

\* getUpdates resolves: lines 74-81, up to the first dispatch or the next request
PollSuccess(respMarker, updates) ==
    /\ rcvPc = "request"
    /\ resp' = [marker |-> respMarker, updates |-> updates]
    /\ marker' = AdoptMarker(marker, respMarker)
    /\ apiMarker' = IF IsSome(respMarker) THEN Get(respMarker) ELSE apiMarker
    /\ failures' = 0
    /\ ForLoopAt(updates, 1, AdoptMarker(marker, respMarker), <<>>)
    /\ UNCHANGED <<rcvConfig, aborted, rcvUnregister, rcvLogged, pathVars, whVars,
                   msgVars, cfgVars, outVars>>

\* getUpdates rejects: lines 86-91
PollFailure ==
    /\ rcvPc = "request"
    /\ rcvPc' = AfterPollError(aborted)
    /\ failures' = IF aborted THEN failures
                   ELSE IF failures < MaxFailures THEN failures + 1 ELSE failures
    /\ rcvLogged' = IF aborted THEN rcvLogged ELSE rcvLogged \cup {"poll"}
    /\ UNCHANGED <<rcvConfig, aborted, marker, apiMarker, sentMarker, resp, batchIdx,
                   cycleLog, rcvUnregister, pathVars, whVars, msgVars, cfgVars, outVars>>

\* sleep(3000) resolves
BackoffDone ==
    /\ rcvPc = "backoff"
    /\ EnterLoop(marker)
    /\ UNCHANGED <<rcvConfig, aborted, marker, apiMarker, resp, batchIdx, cycleLog,
                   failures, rcvUnregister, rcvLogged, pathVars, whVars, msgVars, cfgVars, outVars>>

\* dispatchUpdate of the update at batchIdx settles: lines 80-85
DispatchSettled ==
    /\ rcvPc = "dispatching"
    /\ LET update == resp.updates[batchIdx]
           log == Append(cycleLog, [event |-> IF update.throws THEN "error" ELSE "done",
                                    n |-> update.n])
       IN  IF AfterDispatch(update.throws) = "next_update"
           THEN /\ ForLoopAt(resp.updates, batchIdx + 1, marker, log)
                /\ rcvLogged' = IF update.throws THEN rcvLogged \cup {"dispatch"}
                                ELSE rcvLogged
                /\ failures' = failures
           ELSE /\ rcvPc' = AfterPollError(aborted)
                /\ cycleLog' = log
                /\ batchIdx' = 0
                /\ sentMarker' = sentMarker
                /\ rcvLogged' = IF aborted THEN rcvLogged ELSE rcvLogged \cup {"poll"}
                /\ failures' = failures
    /\ UNCHANGED <<rcvConfig, aborted, marker, apiMarker, resp, rcvUnregister, pathVars,
                   whVars, msgVars, cfgVars, outVars>>

\* subscribeMaxWebhook settles: lines 128-151.  A call that succeeds has
\* created the subscription; one that fails may have created it or not
SubscribeSettled(ok) ==
    /\ rcvPc = "subscribing"
    /\ \E applied \in IF ok THEN {TRUE} ELSE BOOLEAN :
          subscribed' = (subscribed \/ applied)
    /\ IF ok
       THEN /\ rcvPc' = IF aborted THEN "unsubscribing" ELSE "waiting"
            /\ UNCHANGED <<webhookTargets, liveTargets, rcvLogged>>
       ELSE /\ rcvLogged' = rcvLogged \cup {"subscribe"}
            /\ webhookTargets' = RegistryAfterUnregister(webhookTargets,
                                     Get(rcvUnregister).key, Get(rcvUnregister).id)
            /\ liveTargets' = {t \in liveTargets : t.id # Get(rcvUnregister).id}
            /\ rcvPc' = "threw"
    /\ UNCHANGED <<rcvConfig, aborted, marker, apiMarker, sentMarker, resp, batchIdx,
                   cycleLog, failures, rcvUnregister, nextTargetId, unregisterFns, req,
                   pathVars, msgVars, cfgVars, dlv, tmpFiles, clock>>

\* Mutant of WaitEnds: the target is deregistered before unsubscribe is called.
WaitEnds_DeregistersFirst ==
    /\ rcvPc = "waiting"
    /\ aborted
    /\ rcvPc' = "unsubscribing"
    /\ webhookTargets' = RegistryAfterUnregister(webhookTargets,
                             Get(rcvUnregister).key, Get(rcvUnregister).id)
    /\ liveTargets' = {t \in liveTargets : t.id # Get(rcvUnregister).id}
    /\ UNCHANGED <<rcvConfig, aborted, marker, apiMarker, sentMarker, resp, batchIdx,
                   cycleLog, failures, rcvUnregister, rcvLogged, nextTargetId,
                   unregisterFns, req, pathVars, msgVars, cfgVars, outVars>>
\* checkAbort finds the signal raised: lines 142-155
WaitEnds ==
    /\ rcvPc = "waiting"
    /\ aborted
    /\ rcvPc' = "unsubscribing"
    /\ UNCHANGED <<rcvConfig, aborted, marker, apiMarker, sentMarker, resp, batchIdx,
                   cycleLog, failures, rcvUnregister, rcvLogged, pathVars, whVars,
                   msgVars, cfgVars, outVars>>

\* unsubscribeMaxWebhook settles: lines 154-162.  A call that succeeds has
\* removed the subscription; one that fails may have removed it or not
UnsubscribeSettled(ok) ==
    /\ rcvPc = "unsubscribing"
    /\ \E applied \in IF ok THEN {TRUE} ELSE BOOLEAN :
          subscribed' = (subscribed /\ ~applied)
    /\ rcvLogged' = IF ok THEN rcvLogged ELSE rcvLogged \cup {"unsubscribe"}
    /\ webhookTargets' = RegistryAfterUnregister(webhookTargets,
                             Get(rcvUnregister).key, Get(rcvUnregister).id)
    /\ liveTargets' = {t \in liveTargets : t.id # Get(rcvUnregister).id}
    /\ rcvPc' = "returned"
    /\ UNCHANGED <<rcvConfig, aborted, marker, apiMarker, sentMarker, resp, batchIdx,
                   cycleLog, failures, rcvUnregister, nextTargetId, unregisterFns, req,
                   pathVars, msgVars, cfgVars, dlv, tmpFiles, clock>>

(***************************************************************************)
(* Replies (src/unnamed/part_000): one invocation of processIncomingMessage *)
(* from its gate to its sends, and deliverMaxReply.  Every action runs an   *)
(* invocation from one await to the next.  A payload is [text, mediaUrls,   *)
(* mediaUrl], all optional; the log of an invocation holds its calls:       *)
(* [op, chat, item, ok], item being what was sent, fetched or written.      *)
(***************************************************************************)
Http == <<"h", "t", "t", "p", ":", "/", "/">>
Https == <<"h", "t", "t", "p", "s", ":", "/", "/">>
\* mediaUrl.startsWith("http://") || mediaUrl.startsWith("https://")
IsRemote(mediaUrl) == StartsWith(mediaUrl, Http) \/ StartsWith(mediaUrl, Https)
\* payload.mediaUrls?.length ? payload.mediaUrls
\*                           : payload.mediaUrl ? [payload.mediaUrl] : []
MediaList(payload) ==
    IF IsSome(payload.mediaUrls) /\ Len(Get(payload.mediaUrls)) > 0
    THEN Get(payload.mediaUrls)
    ELSE IF Truthy(payload.mediaUrl) THEN <<Get(payload.mediaUrl)>> ELSE <<>>

\* chatIdStr of processIncomingMessage, chatId of deliverMaxReply: locals of
\* the invocation
DeliveryChat(p) == dlv[p].chat

Logged(p, proc, op, item, ok) ==
    [proc EXCEPT !.log = Append(@, [op |-> op, chat |-> DeliveryChat(p), item |-> item,
                                    ok |-> ok])]
\* the two loops of deliverMaxReply: the await reached next
Proceed(proc) ==
    IF proc.i <= Len(proc.chunks) THEN [proc EXCEPT !.pc = "chunk"]
    ELSE IF proc.j <= Len(proc.media)
         THEN [proc EXCEPT !.pc = IF IsRemote(proc.media[proc.j]) THEN "fetch"
                                   ELSE "send_local"]
         ELSE [proc EXCEPT !.pc = "done"]
\* Mutant of Caught: the error leaves deliverMaxReply.
Caught_Rethrows(proc) == [proc EXCEPT !.pc = "threw"]
\* the catch blocks of the two loops (lines 669-672 and 714-716): the error
\* is logged and the loop goes on
Caught(proc) == Proceed(proc)

\* processIncomingMessage up to its first send: the gate, then the pairing
\* reply or the dispatcher's call of deliver.  call is [message, payload,
\* chunks, chunkerOk]: the inbound message, the payload the host produces
\* for it and what the host's chunker does with the payload's text
StartInvocation(p, call) ==
    LET host == [store |-> pairingStore, pending |-> pairingPending]
        result == processIncomingMessage(call.message, monitorOpts, host, BaseEnv)
        started == [dlv[p] EXCEPT !.message = Some(call.message)]
    IN  /\ dlv[p].pc = "idle"
        /\ pairingPending' = PendingAfterUpserts(pairingPending, result.upserts)
        /\ dlv' = [dlv EXCEPT ![p] =
              IF Len(result.pairingReplies) > 0
              THEN [started EXCEPT !.pc = "pairing",
                                   !.chat = result.pairingReplies[1].chatId]
              ELSE IF Len(result.replyTargets) = 0 THEN [started EXCEPT !.pc = "done"]
              ELSE IF Truthy(call.payload.text) /\ ~call.chunkerOk
                   THEN [started EXCEPT !.pc = "threw",
                                        !.chat = result.replyTargets[1].chatId]
                   ELSE Proceed([started EXCEPT
                            !.chat = result.replyTargets[1].chatId,
                            !.chunks = IF Truthy(call.payload.text) THEN call.chunks
                                       ELSE <<>>,
                            !.media = MediaList(call.payload),
                            !.i = 1, !.j = 1])]
        /\ UNCHANGED <<monitorOpts, pairingStore, stickerCache, last, dmHistory,
                       subscribed, tmpFiles, clock, pathVars, whVars, rcvVars, cfgVars>>

DeliveryStep(p, proc, files) ==
    /\ dlv' = [dlv EXCEPT ![p] = proc]
    /\ tmpFiles' = files
    /\ clock' = IF proc.pc = "write" THEN proc.tmpPath ELSE clock
    /\ UNCHANGED <<subscribed, pathVars, whVars, msgVars, rcvVars, cfgVars>>

\* the pairing reply settles: its failure is caught and logged
PairingSettled(p, ok) ==
    /\ dlv[p].pc = "pairing"
    /\ DeliveryStep(p, [Logged(p, dlv[p], "pairing", <<>>, ok) EXCEPT !.pc = "done"],
                    tmpFiles)

\* sendMaxMessage of chunk i settles: lines 662-673
ChunkSettled(p, ok) ==
    /\ dlv[p].pc = "chunk"
    /\ LET sent == [Logged(p, dlv[p], "text", dlv[p].chunks[dlv[p].i], ok)
                       EXCEPT !.i = @ + 1]
       IN  DeliveryStep(p, IF ok THEN Proceed(sent) ELSE Caught(sent), tmpFiles)


\* fetchRemoteMedia of item j settles, elapsed milliseconds after the clock
\* was read last, and tmpPath is computed: lines 686-693.  The temp file is
\* named by Date.now(), the file name being taken as the same for all items
FetchSettled(p, ok, elapsed) ==
    /\ dlv[p].pc = "fetch"
    /\ clock + elapsed <= MaxClock
    /\ LET fetched == Logged(p, dlv[p], "fetch", dlv[p].media[dlv[p].j], ok)
       IN  DeliveryStep(p, IF ok THEN [fetched EXCEPT !.pc = "write",
                                                     !.tmpPath = clock + elapsed]
                           ELSE Caught([fetched EXCEPT !.j = @ + 1]),
                        tmpFiles)

\* fs.writeFile of item j settles: it wrote the file, failed before creating
\* it, or failed having created it (line 694)
WriteSettled(p, outcome) ==
    /\ dlv[p].pc = "write"
    /\ LET written == Logged(p, dlv[p], "write", dlv[p].media[dlv[p].j], outcome = "ok")
       IN  DeliveryStep(p, IF outcome = "ok" THEN [written EXCEPT !.pc = "send_staged"]
                           ELSE Caught([written EXCEPT !.j = @ + 1]),
                        IF outcome = "failed" THEN tmpFiles
                        ELSE MapSet(tmpFiles, dlv[p].tmpPath, dlv[p].media[dlv[p].j]))

\* sendMaxMediaMessage of item j settles: lines 696-701 (what the file at
\* tmpPath holds is uploaded; without the file the send fails) and 706-712
\* (a local path)
MediaSendSettled(p, ok) ==
    /\ dlv[p].pc \in {"send_staged", "send_local"}
    /\ IF dlv[p].pc = "send_staged"
       THEN /\ ok => dlv[p].tmpPath \in DOMAIN tmpFiles
            /\ DeliveryStep(p, [Logged(p, dlv[p], "send_staged",
                                       MapGet(tmpFiles, dlv[p].tmpPath), ok)
                                   EXCEPT !.pc = "unlink"],
                            tmpFiles)
       ELSE LET sent == [Logged(p, dlv[p], "send_local", dlv[p].media[dlv[p].j], ok)
                            EXCEPT !.j = @ + 1]
            IN  DeliveryStep(p, IF ok THEN Proceed(sent) ELSE Caught(sent), tmpFiles)

\* fs.unlink of the staged file settles, its failure being swallowed; a
\* failure of the send is then caught by the loop (lines 702-705, 714)
UnlinkSettled(p, ok) ==
    /\ dlv[p].pc = "unlink"
    /\ ok => dlv[p].tmpPath \in DOMAIN tmpFiles
    /\ LET unlinked == [Logged(p, dlv[p], "unlink", dlv[p].media[dlv[p].j], ok)
                           EXCEPT !.j = @ + 1]
           sendOk == dlv[p].log[Len(dlv[p].log)].ok
       IN  DeliveryStep(p, IF sendOk THEN Proceed(unlinked) ELSE Caught(unlinked),
                        IF ok THEN MapDelete(tmpFiles, dlv[p].tmpPath) ELSE tmpFiles)

DeliverySteps(p) ==
    \/ \E ok \in BOOLEAN : PairingSettled(p, ok)
    \/ \E ok \in BOOLEAN : ChunkSettled(p, ok)
    \/ \E ok \in BOOLEAN, elapsed \in {0, 1} : FetchSettled(p, ok, elapsed)
    \/ \E outcome \in {"ok", "failed", "partial"} : WriteSettled(p, outcome)
    \/ \E ok \in BOOLEAN : MediaSendSettled(p, ok)
    \/ \E ok \in BOOLEAN : UnlinkSettled(p, ok)

\* ---- inputs of the reply specifications
RemoteA == Http \o <<"a">>
RemoteB == Https \o <<"b">>
LocalF == <<"/", "f">>
Payload(text, mediaUrls, mediaUrl) ==
    [text |-> text, mediaUrls |-> mediaUrls, mediaUrl |-> mediaUrl]
ChunkA == <<"A">>
ChunkB == <<"B">>
DeliverPayloads ==
    {Payload(text, mediaUrls, mediaUrl) :
        text \in {None, Some(<<>>), Some(ChunkA \o ChunkB)},
        mediaUrls \in {None, Some(<<>>), Some(<<RemoteA, LocalF>>),
                       Some(<<LocalF, RemoteB>>), Some(<<RemoteA, RemoteB>>)},
        mediaUrl \in {None, Some(<<>>), Some(LocalF)}}
DeliverCalls ==
    {[message |-> BaseMessage, payload |-> payload, chunks |-> chunks,
      chunkerOk |-> chunkerOk] :
        payload \in DeliverPayloads, chunks \in {<<ChunkA \o ChunkB>>, <<ChunkA, ChunkB>>},
        chunkerOk \in BOOLEAN}

DeliverInit ==
    /\ rcvPc = "idle" /\ rcvConfig = None /\ aborted = FALSE /\ marker = None
    /\ apiMarker = 0 /\ sentMarker = None /\ resp = NoResp /\ batchIdx = 0
    /\ cycleLog = <<>> /\ failures = 0 /\ rcvUnregister = None /\ rcvLogged = {}
    /\ cfgPc = "idle" /\ cfgArg = None /\ cfgResult = None
    /\ pathPc = "idle" /\ pathArg = None /\ urlArg = None
    /\ pathOnce = <<>> /\ pathTwice = <<>>
    /\ webhookTargets = EmptyMap /\ nextTargetId = 0 /\ unregisterFns = {}
    /\ liveTargets = {} /\ req = IdleReq
    /\ monitorOpts \in {BaseOpts, [BaseOpts EXCEPT !.dmPolicy = Some("open")]}
    /\ pairingStore = {}
    /\ pairingPending = {}
    /\ stickerCache = [byChat |-> EmptyMap, global |-> None]
    /\ last = None
    /\ dmHistory = NoHistory
    /\ subscribed = FALSE
    /\ dlv = [NoDeliveries EXCEPT !["a"].pc = "idle"]
    /\ tmpFiles = EmptyMap
    /\ clock = 1

\* two updates for different chats handled at the same time (webhook mode)
ConcurrentMessages ==
    {[BaseMessage EXCEPT !.senderId = Some(1), !.chatId = Some(10)],
     [BaseMessage EXCEPT !.senderId = Some(2), !.chatId = Some(20)],
     [BaseMessage EXCEPT !.senderId = Some(2), !.chatId = None, !.chatType = None]}
ConcurrentCalls ==
    {[message |-> message, payload |-> payload, chunks |-> <<ChunkA>>,
      chunkerOk |-> TRUE] :
        message \in ConcurrentMessages,
        payload \in {Payload(Some(ChunkA), None, Some(RemoteA)),
                     Payload(None, Some(<<RemoteB>>), None),
                     Payload(None, Some(<<LocalF>>), None)}}

ConcurrentInit ==
    /\ rcvPc = "idle" /\ rcvConfig = None /\ aborted = FALSE /\ marker = None
    /\ apiMarker = 0 /\ sentMarker = None /\ resp = NoResp /\ batchIdx = 0
    /\ cycleLog = <<>> /\ failures = 0 /\ rcvUnregister = None /\ rcvLogged = {}
    /\ cfgPc = "idle" /\ cfgArg = None /\ cfgResult = None
    /\ pathPc = "idle" /\ pathArg = None /\ urlArg = None
    /\ pathOnce = <<>> /\ pathTwice = <<>>
    /\ webhookTargets = EmptyMap /\ nextTargetId = 0 /\ unregisterFns = {}
    /\ liveTargets = {} /\ req = IdleReq
    /\ monitorOpts \in {BaseOpts, [BaseOpts EXCEPT !.dmPolicy = Some("open")]}
    /\ pairingStore = {}
    /\ pairingPending = {}
    /\ stickerCache = [byChat |-> EmptyMap, global |-> None]
    /\ last = None
    /\ dmHistory = NoHistory
    /\ subscribed = FALSE
    /\ dlv = [p \in Procs |-> [OffProc EXCEPT !.pc = "idle"]]
    /\ tmpFiles = EmptyMap
    /\ clock = 1

(***************************************************************************)
(* Configuration resolution (src/src/actions.ts, src/src/accounts.ts).     *)
(* channels.max is a record of optional fields; a groups table is a        *)
(* function from group keys to entries; requireMention of an entry is      *)
(* [kind, value], kind being the typeof of what the config holds.          *)
(***************************************************************************)
DEFAULT_ACCOUNT_ID == "default"

Undefined == [kind |-> "undefined", value |-> FALSE]
Bool(b) == [kind |-> "boolean", value |-> b]
NotBool == [kind |-> "string", value |-> FALSE]
ConfigEntry(requireMention) == [requireMention |-> requireMention]

BaseEntry ==
    [enabled |-> None, botToken |-> None, name |-> None, dmPolicy |-> None,
     allowFrom |-> None, groups |-> None, groupPolicy |-> None, groupAllowFrom |-> None,
     webhookUrl |-> None, webhookSecret |-> None, webhookPath |-> None,
     mediaMaxMb |-> None]
BaseSection ==
    [enabled |-> None, botToken |-> None, tokenFile |-> None, name |-> None,
     dmPolicy |-> None, allowFrom |-> None, groups |-> None, groupPolicy |-> None,
     groupAllowFrom |-> None, webhookUrl |-> None, webhookSecret |-> None,
     webhookPath |-> None, mediaMaxMb |-> None, accounts |-> None]

\* Mutant of resolveMaxGroupConfig: only the channel-level table is consulted.
resolveMaxGroupConfig_ChannelOnly(cfg, groupId, accountId) ==
    IF ~IsSome(cfg.max) THEN [groupConfig |-> None, defaultConfig |-> None]
    ELSE LET groups == Get(cfg.max).groups
             normalizedId == IF IsSome(groupId) THEN Trim(Get(groupId)) ELSE <<>>
         IN  [groupConfig |->
                  IF normalizedId # <<>> /\ IsSome(groups)
                     /\ normalizedId \in DOMAIN Get(groups)
                  THEN Some(Get(groups)[normalizedId]) ELSE None,
              defaultConfig |->
                  IF IsSome(groups) /\ Wildcard \in DOMAIN Get(groups)
                  THEN Some(Get(groups)[Wildcard]) ELSE None]

resolveMaxGroupConfig(cfg, groupId, accountId) ==
    IF ~IsSome(cfg.max) THEN [groupConfig |-> None, defaultConfig |-> None]
    ELSE LET maxSection == Get(cfg.max)
             accounts == maxSection.accounts
             ownGroups ==
                 IF /\ IsSome(accountId) /\ Get(accountId) # ""
                    /\ Get(accountId) # DEFAULT_ACCOUNT_ID
                    /\ IsSome(accounts)
                    /\ Get(accountId) \in DOMAIN Get(accounts)
                 THEN Get(accounts)[Get(accountId)].groups
                 ELSE None
             groups == IF IsSome(ownGroups) THEN ownGroups ELSE maxSection.groups
             normalizedId == IF IsSome(groupId) THEN Trim(Get(groupId)) ELSE <<>>
         IN  [groupConfig |->
                  IF normalizedId # <<>> /\ IsSome(groups)
                     /\ normalizedId \in DOMAIN Get(groups)
                  THEN Some(Get(groups)[normalizedId]) ELSE None,
              defaultConfig |->
                  IF IsSome(groups) /\ Wildcard \in DOMAIN Get(groups)
                  THEN Some(Get(groups)[Wildcard]) ELSE None]

\* typeof config?.requireMention === "boolean"
HasBooleanMention(config) ==
    IsSome(config) /\ Get(config).requireMention.kind = "boolean"

resolveMaxGroupRequireMention(cfg, groupId, accountId) ==
    LET resolved == resolveMaxGroupConfig(cfg, groupId, accountId)
    IN  IF HasBooleanMention(resolved.groupConfig)
        THEN Get(resolved.groupConfig).requireMention.value
        ELSE IF HasBooleanMention(resolved.defaultConfig)
             THEN Get(resolved.defaultConfig).requireMention.value
             ELSE TRUE

\* botToken?.trim(), "" when absent or blank
TrimmedToken(maybeToken) == IF IsSome(maybeToken) THEN Trim(Get(maybeToken)) ELSE <<>>

\* the fields both branches of resolveMaxAccount copy from their source
CopiedFields ==
    {"botToken", "name", "dmPolicy", "allowFrom", "groups", "groupPolicy",
     "groupAllowFrom", "webhookUrl", "webhookSecret", "webhookPath", "mediaMaxMb"}

\* the account ids drawn are lower-case and without blanks, which the SDK's
\* normalizeAccountId returns as they are
resolveMaxAccount(cfg, rawId, envToken) ==
    LET accountId == IF IsSome(rawId) /\ Get(rawId) # "" THEN Get(rawId)
                     ELSE DEFAULT_ACCOUNT_ID
        section == IF IsSome(cfg.max) THEN Get(cfg.max) ELSE BaseSection
        accounts == section.accounts
        raw == IF accountId = DEFAULT_ACCOUNT_ID THEN section
               ELSE IF IsSome(accounts) /\ accountId \in DOMAIN Get(accounts)
                    THEN Get(accounts)[accountId]
                    ELSE BaseEntry
        accountConfig ==
            [f \in CopiedFields \cup {"enabled"} \cup
                   (IF accountId = DEFAULT_ACCOUNT_ID THEN {"tokenFile"} ELSE {}) |->
                IF f = "enabled" THEN Some(raw.enabled # Some(FALSE)) ELSE raw[f]]
        configToken == TrimmedToken(accountConfig.botToken)
        fromEnv == accountId = DEFAULT_ACCOUNT_ID /\ configToken = <<>>
                   /\ TrimmedToken(envToken) # <<>>
    IN  [accountId |-> accountId,
         name |-> accountConfig.name,
         enabled |-> Get(accountConfig.enabled),
         token |-> IF configToken # <<>> THEN configToken
                   ELSE IF fromEnv THEN TrimmedToken(envToken) ELSE <<>>,
         tokenSource |-> IF configToken # <<>> THEN "config"
                         ELSE IF fromEnv THEN "env" ELSE "none",
         config |-> accountConfig]

\* account.config.groups as the inbound gate reads it: of requireMention the
\* gate uses `?? true` and then the truthiness; a non-boolean held by the
\* configurations drawn is a non-empty string
GateGroups(groups) ==
    IF ~IsSome(groups) THEN None
    ELSE Some([k \in DOMAIN Get(groups) |->
                 [requireMention |->
                      IF Get(groups)[k].requireMention.kind = "undefined" THEN None
                      ELSE IF Get(groups)[k].requireMention.kind = "boolean"
                           THEN Some(Get(groups)[k].requireMention.value)
                           ELSE Some(TRUE)]])

\* the requireMention of part_000:468-469 for the account the gateway was
\* started with: ctx.account = resolveMaxAccount({cfg, accountId})
GateRequireMention(cfg, accountId, chatIdStr) ==
    LET account == resolveMaxAccount(cfg, accountId, None)
        opts == [groups |-> GateGroups(account.config.groups)]
    IN  RequireMention(opts, chatIdStr)

\* ---- inputs: configurations, group ids, account ids
G1 == <<"1", "0">>
Table(specific, default) ==
    [k \in (IF specific = Undefined THEN {} ELSE {G1})
           \cup (IF default = Undefined THEN {} ELSE {Wildcard}) |->
        ConfigEntry(IF k = G1 THEN specific ELSE default)]
MentionValues == {Undefined, Bool(TRUE), Bool(FALSE), NotBool}
GroupTablesOf(values) == {Table(specific, default) : specific \in values, default \in values}
\* the group has an entry that sets no requireMention; "*" sets it
OwnEntryUnset(default) ==
    [k \in {G1, Wildcard} |-> ConfigEntry(IF k = G1 THEN Undefined ELSE default)]
ChannelTables ==
    {None} \cup {Some(t) : t \in GroupTablesOf(MentionValues)}
           \cup {Some(OwnEntryUnset(Bool(b))) : b \in BOOLEAN}
AccountTables ==
    {None} \cup {Some(t) : t \in GroupTablesOf({Undefined, Bool(FALSE)})}
             \cup {Some([k \in {G1} |-> ConfigEntry(Undefined)])}
Prod == "prod"
GroupConfigs ==
    {[max |-> None]}
    \cup {[max |-> Some([BaseSection EXCEPT !.groups = groups])] : groups \in ChannelTables}
    \cup {[max |-> Some([BaseSection EXCEPT
                            !.groups = groups,
                            !.accounts = Some([a \in {Prod} |->
                                                  [BaseEntry EXCEPT !.groups = own]])])] :
             groups \in ChannelTables, own \in AccountTables}
GroupIds == {None, Some(<<>>), Some(G1), Some(<<" ", "1", "0", " ">>), Some(<<"2", "0">>)}
AccountIds == {None, Some(""), Some(DEFAULT_ACCOUNT_ID), Some(Prod), Some("dev")}

TopSection ==
    [BaseSection EXCEPT
        !.botToken = Some(<<"t", "0">>), !.dmPolicy = Some("allowlist"),
        !.allowFrom = Some(<<NumberEntry(1)>>),
        !.groups = Some(Table(Bool(FALSE), Undefined)),
        !.groupPolicy = Some("open"), !.webhookUrl = Some("https://h/top"),
        !.webhookSecret = Some("s0"), !.webhookPath = Some("/top"),
        !.mediaMaxMb = Some(5)]
ProdEntries ==
    {BaseEntry,
     [BaseEntry EXCEPT !.botToken = Some(<<" ", "t", "1">>)],
     [BaseEntry EXCEPT !.botToken = Some(<<"t", "1">>), !.dmPolicy = Some("open"),
                       !.enabled = Some(FALSE)],
     [BaseEntry EXCEPT
         !.botToken = Some(<<"t", "1">>), !.dmPolicy = Some("open"),
         !.allowFrom = Some(<<NumberEntry(2)>>),
         !.groups = Some(Table(Bool(TRUE), Bool(TRUE))),
         !.groupPolicy = Some("disabled"), !.webhookUrl = Some("https://h/prod"),
         !.webhookSecret = Some("s1"), !.webhookPath = Some("/prod"),
         !.mediaMaxMb = Some(1)]}
AccountConfigs ==
    {[max |-> Some(TopSection)],
     [max |-> Some([TopSection EXCEPT !.botToken = Some(<<" ">>)])]}
    \cup {[max |-> Some([section EXCEPT !.accounts = Some([a \in {Prod} |-> entry])])] :
             section \in {BaseSection, TopSection}, entry \in ProdEntries}
EnvTokens == {None, Some(<<"e">>)}

ConfigArgs ==
    {[cfg |-> cfg, groupId |-> groupId, accountId |-> accountId, envToken |-> None] :
        cfg \in GroupConfigs, groupId \in GroupIds, accountId \in AccountIds}
    \cup {[cfg |-> cfg, groupId |-> Some(G1), accountId |-> accountId,
           envToken |-> envToken] :
             cfg \in AccountConfigs, accountId \in AccountIds, envToken \in EnvTokens}

NoConfigResult == [requireMention |-> None, account |-> None, gate |-> None]

ConfigInit ==
    /\ rcvPc = "idle" /\ rcvConfig = None /\ aborted = FALSE /\ marker = None
    /\ apiMarker = 0 /\ sentMarker = None /\ resp = NoResp /\ batchIdx = 0
    /\ cycleLog = <<>> /\ failures = 0 /\ rcvUnregister = None /\ rcvLogged = {}
    /\ pathPc = "idle" /\ pathArg = None /\ urlArg = None
    /\ pathOnce = <<>> /\ pathTwice = <<>>
    /\ webhookTargets = EmptyMap /\ nextTargetId = 0 /\ unregisterFns = {}
    /\ liveTargets = {} /\ req = IdleReq
    /\ monitorOpts = None /\ pairingStore = {} /\ pairingPending = {}
    /\ stickerCache = None /\ last = None /\ dmHistory = None
    /\ cfgPc = "called"
    /\ subscribed = FALSE /\ dlv = NoDeliveries /\ tmpFiles = EmptyMap /\ clock = 1
    /\ cfgArg \in ConfigArgs
    /\ cfgResult = NoConfigResult

\* groups.resolveRequireMention({cfg, groupId, accountId})
ResolveRequireMention ==
    /\ cfgPc = "called"
    /\ cfgResult.requireMention = None
    /\ cfgResult' = [cfgResult EXCEPT !.requireMention =
           Some(resolveMaxGroupRequireMention(cfgArg.cfg, cfgArg.groupId, cfgArg.accountId))]
    /\ UNCHANGED <<cfgPc, cfgArg, pathVars, whVars, msgVars, rcvVars, outVars>>

\* processIncomingMessage's mention requirement for a message of the chat
\* whose id, as a string, is the group id
ApplyGate ==
    /\ cfgPc = "called"
    /\ cfgResult.gate = None
    /\ IsSome(cfgArg.groupId)
    /\ cfgResult' = [cfgResult EXCEPT !.gate =
           Some(GateRequireMention(cfgArg.cfg, cfgArg.accountId, Get(cfgArg.groupId)))]
    /\ UNCHANGED <<cfgPc, cfgArg, pathVars, whVars, msgVars, rcvVars, outVars>>

\* resolveMaxAccount({cfg, accountId})
ResolveAccount ==
    /\ cfgPc = "called"
    /\ cfgResult.account = None
    /\ cfgResult' = [cfgResult EXCEPT !.account =
           Some(resolveMaxAccount(cfgArg.cfg, cfgArg.accountId, cfgArg.envToken))]
    /\ UNCHANGED <<cfgPc, cfgArg, pathVars, whVars, msgVars, rcvVars, outVars>>

(***************************************************************************)
(* Specifications.                                                         *)
(***************************************************************************)
PathNext == ResolveOnce \/ ResolveTwice
SpecPath == PathInit /\ [][PathNext]_vars

WebhookNext ==
    \/ \E rawPath \in TargetPaths, secret \in TargetSecrets : Register(rawPath, secret)
    \/ \E fn \in unregisterFns : Unregister(fn)
    \/ \E pathname \in RequestPaths, method \in RequestMethods, header \in RequestHeaders :
           RequestStart(pathname, method, header)
    \/ \E body \in RequestBodies, onUpdate \in {"ok", "throws"} : RequestBody(body, onUpdate)
SpecWebhook == WebhookInit /\ [][WebhookNext]_vars

DmNext ==
    \/ \E update \in DmUpdates, env \in DmEnvs : DispatchUpdate(update, env)
    \/ \E id \in pairingPending : ApprovePairing(id)
SpecDm == DmInit /\ [][DmNext]_vars

GroupNext ==
    \E update \in GroupUpdates, env \in GroupEnvs : DispatchFirst(update, env)
SpecGroup == GroupInit /\ [][GroupNext]_vars

ContentNext ==
    \E update \in ContentUpdates, env \in ContentEnvs : DispatchFirst(update, env)
SpecContent == ContentInit /\ [][ContentNext]_vars

EditedNext ==
    \E update \in EditedUpdates, env \in EditedEnvs : DispatchFirst(update, env)
SpecEdited == EditedInit /\ [][EditedNext]_vars

InboundNext ==
    \E update \in InboundUpdates, env \in InboundEnvs : DispatchFirst(update, env)
SpecInbound == InboundInit /\ [][InboundNext]_vars

DeliverNext ==
    \/ \E call \in DeliverCalls : StartInvocation("a", call)
    \/ DeliverySteps("a")
SpecDeliver == DeliverInit /\ [][DeliverNext]_vars

ConcurrentNext ==
    \/ \E p \in Procs, call \in ConcurrentCalls : StartInvocation(p, call)
    \/ \E p \in Procs : DeliverySteps(p)
SpecConcurrent == ConcurrentInit /\ [][ConcurrentNext]_vars

ReceiverNext ==
    \/ StartMaxPolling
    \/ Abort
    \/ \E respMarker \in {None} \cup {Some(m) : m \in apiMarker..MaxMarker},
          updates \in Batches : PollSuccess(respMarker, updates)
    \/ PollFailure
    \/ BackoffDone
    \/ DispatchSettled
    \/ \E ok \in BOOLEAN : SubscribeSettled(ok)
    \/ WaitEnds
    \/ \E ok \in BOOLEAN : UnsubscribeSettled(ok)
SpecReceiver == ReceiverInit /\ [][ReceiverNext]_vars

\* every pending API call, dispatch and timer of the receiver settles; nothing
\* obliges the host to raise the abort signal
ReceiverSteps ==
    \/ StartMaxPolling
    \/ \E respMarker \in {None} \cup {Some(m) : m \in apiMarker..MaxMarker},
          updates \in Batches : PollSuccess(respMarker, updates)
    \/ PollFailure
    \/ BackoffDone
    \/ DispatchSettled
    \/ \E ok \in BOOLEAN : SubscribeSettled(ok)
    \/ WaitEnds
    \/ \E ok \in BOOLEAN : UnsubscribeSettled(ok)
SpecReceiverFair == ReceiverInit /\ [][ReceiverNext]_vars /\ WF_vars(ReceiverSteps)

ConfigNext == ResolveRequireMention \/ ResolveAccount \/ ApplyGate
SpecConfig == ConfigInit /\ [][ConfigNext]_vars

(***************************************************************************)
(* Claims about the webhook handler.                                       *)
(***************************************************************************)
SeqToSet(s) == {s[i] : i \in DOMAIN s}

\* the request has been answered after its body was read as a JSON object
AnsweredObject == req.phase = "done" /\ req.method = "POST" /\ req.body = "object"

\* a target with no secret configured (an empty secret is no secret)
NoSecretConfigured(t) == t.secret = None \/ t.secret = Some("")
Qualifies(t, header) == NoSecretConfigured(t) \/ t.secret = Some(header)

DistinctSecrets(targets) ==
    \A i, j \in DOMAIN targets :
        (i # j /\ ~NoSecretConfigured(targets[i]) /\ ~NoSecretConfigured(targets[j]))
            => targets[i].secret # targets[j].secret

\* C8: with several targets of distinct secrets on one path, each accepted
\* request is dispatched to exactly one target, and a request whose header
\* equals a target's secret is dispatched to that target, whatever the order
\* of registration and whether or not a target without a secret shares the
\* path.
C8_DistinctSecretsRouting ==
    (AnsweredObject /\ Len(req.targets) >= 2 /\ DistinctSecrets(req.targets)) =>
        /\ req.status \in {200, 500} => Len(req.invoked) = 1
        /\ \A t \in SeqToSet(req.targets) :
               (~NoSecretConfigured(t) /\ t.secret = Some(req.header))
                   => req.invoked = <<t.id>>

\* C8 witness: three targets share the path, two with distinct secrets and one
\* without; the header names the secret of a target registered after the
\* target without a secret, and that target is the one invoked.
C8_Witness ==
    /\ AnsweredObject
    /\ Len(req.targets) = 3
    /\ DistinctSecrets(req.targets)
    /\ \E i, j, k \in DOMAIN req.targets :
           /\ i < j
           /\ NoSecretConfigured(req.targets[i])
           /\ req.targets[j].secret = Some(req.header)
           /\ ~Qualifies(req.targets[k], req.header)
           /\ req.invoked = <<req.targets[j].id>>

\* the identities registered under a key, and those the history says are live
RegisteredIds(key) == {t.id : t \in SeqToSet(MapGet(webhookTargets, key))}
LiveIds(key) == {t.id : t \in {u \in liveTargets : normalizeWebhookPath(u.rawPath) = key}}

\* C9: for any sequence of register and unregister calls, a request is handled
\* iff at least one target is then registered under the normalised path; an
\* unregister call removes only the target it was returned for and a repeated
\* call changes nothing: the registry holds, under each key and once each,
\* exactly the targets registered there whose unregister was never called.
C9_RegistryTracksRegistrations ==
    /\ \A key \in DOMAIN webhookTargets :
           /\ Len(webhookTargets[key]) > 0
           /\ Cardinality(RegisteredIds(key)) = Len(webhookTargets[key])
    /\ \A key \in (DOMAIN webhookTargets) \cup {normalizeWebhookPath(t.rawPath) : t \in liveTargets} :
           RegisteredIds(key) = LiveIds(key)
    /\ \A t \in liveTargets :
           \E e \in SeqToSet(MapGet(webhookTargets, normalizeWebhookPath(t.rawPath))) :
               e.id = t.id /\ e.secret = t.secret
    /\ req.phase = "reading" => normalizeWebhookPath(req.path) \in req.liveKeys
    /\ req.phase = "done" =>
           (req.handled <=> normalizeWebhookPath(req.path) \in req.liveKeys)

\* C9 witness: a request is handled on a path where one target was
\* unregistered and another is still registered.
C9_Witness ==
    /\ req.phase = "done"
    /\ req.handled
    /\ \E fn \in unregisterFns :
           /\ fn.id \notin {t.id : t \in liveTargets}
           /\ fn.key = normalizeWebhookPath(req.path)
           /\ LiveIds(fn.key) # {}
           /\ RegisteredIds(fn.key) = LiveIds(fn.key)

\* C28: handleMaxWebhookRequest invokes onUpdate only on a target whose
\* unregister function has not returned by then, also for a request whose
\* body was being read when unregister was called.
C28_NoInvokeAfterUnregister ==
    \A id \in SeqToSet(req.invoked) : id \in {t.id : t \in liveTargets}

(***************************************************************************)
(* Claims about the direct-message gate.                                   *)
(***************************************************************************)
LastMessage == Get(Get(last).dispatch.normalizer)
LastResult == Get(last).dispatch.result
\* the last update reached the normaliser with content (effective text or media)
LastHasContent ==
    /\ IsSome(last)
    /\ IsSome(Get(last).dispatch.normalizer)
    /\ (LastResult.effectiveText # <<>> \/ LastResult.hasMedia)
LastIsDm == LastHasContent /\ LastMessage.chatType \notin {Some("chat"), Some("channel")}
LastDmPolicy == OrElse(monitorOpts.dmPolicy, "pairing")

\* String() of the configured allowFrom entries
ConfiguredAllowList ==
    LET entries == OrElse(monitorOpts.allowFrom, <<>>)
    IN  {IF entries[i].kind = "number" THEN NumberToString(entries[i].number)
         ELSE entries[i].string : i \in DOMAIN entries}
InUnion(senderStr, union) == senderStr \in union \/ <<"*">> \in union

\* C2: under dmPolicy=pairing, for a sender neither allow-listed nor in the
\* pairing store (no wildcard present), the first direct message creates
\* exactly one pairing entry and sends exactly one pairing reply, later ones
\* before approval send no further reply, and none reaches the host pipeline.
C2_PairingOnce ==
    LastDmPolicy = "pairing" =>
        \A sender \in SenderIds :
            LET senderStr == NumberToString(sender)
            IN  ~InUnion(senderStr, ConfiguredAllowList \cup pairingStore) =>
                    /\ CountOf(dmHistory.created, senderStr) =
                           (IF senderStr \in dmHistory.senders THEN 1 ELSE 0)
                    /\ CountOf(dmHistory.replies, senderStr) =
                           (IF senderStr \in dmHistory.senders THEN 1 ELSE 0)
                    /\ senderStr \in dmHistory.senders <=> senderStr \in pairingPending
                    /\ (LastIsDm /\ LastMessage.senderId = Some(sender))
                           => ~LastResult.forwarded

\* C2 witness: a repeated direct message of a sender whose pairing request is
\* pending: no new request, no reply, one reply in all.
C2_Witness ==
    /\ LastDmPolicy = "pairing"
    /\ LastIsDm
    /\ LET senderStr == StringOf(LastMessage.senderId)
       IN  /\ ~InUnion(senderStr, ConfiguredAllowList \cup pairingStore)
           /\ senderStr \in Get(last).host.pending
           /\ LastResult.upserts = <<senderStr>>
           /\ LastResult.pairingReplies = <<>>
           /\ CountOf(dmHistory.replies, senderStr) = 1

\* the verdict of the gate for the last direct message, given the pairing
\* store the union is taken with
DmVerdict(store) ==
    LastIsDm =>
        LET senderStr == StringOf(LastMessage.senderId)
        IN  /\ LastDmPolicy = "disabled" => ~LastResult.forwarded
            /\ LastDmPolicy = "open" => LastResult.forwarded
            /\ LastDmPolicy \notin {"disabled", "open"} =>
                   (LastResult.forwarded <=>
                        InUnion(senderStr, ConfiguredAllowList \cup store))
            /\ (LastDmPolicy = "allowlist" /\ ~LastResult.forwarded) =>
                   /\ LastResult.pairingReplies = <<>>
                   /\ LastResult.upserts = <<>>
                   /\ LastResult.replyTargets = <<>>

\* C3 as stated: a direct message with content is never forwarded under
\* disabled, always under open, and otherwise iff the sender id is in the
\* union of the configured allowFrom list and the pairing store or the union
\* holds "*"; a disallowed sender under allowlist gets no reply and no
\* pairing request.
C3_DmGate_Original == DmVerdict(IF IsSome(last) THEN Get(last).host.store ELSE {})

\* C3 amended: the same, the union being taken with the pairing store as
\* read: a store whose read fails counts as empty.
C3_DmGate ==
    DmVerdict(IF IsSome(last) /\ Get(last).env.storeReadOk
              THEN Get(last).host.store ELSE {})

\* C3 witness: under allowlist a sender found only in the pairing store is
\* forwarded after a successful read.
C3_Witness ==
    /\ LastIsDm
    /\ LastDmPolicy = "allowlist"
    /\ Get(last).env.storeReadOk
    /\ StringOf(LastMessage.senderId) \in Get(last).host.store
    /\ ~InUnion(StringOf(LastMessage.senderId), ConfiguredAllowList)
    /\ LastResult.forwarded

\* C29: when the pairing store cannot be read the error is not propagated
\* (the dispatch completes, one read having been attempted), the store counts
\* as empty, and under allowlist or pairing a sender who is not in the
\* configured allowFrom list (no "*" configured) is not forwarded.
C29_FailsClosed ==
    (/\ LastIsDm
     /\ ~Get(last).env.storeReadOk
     /\ LastDmPolicy \in {"allowlist", "pairing"}
     /\ ~InUnion(StringOf(LastMessage.senderId), ConfiguredAllowList)) =>
        /\ Get(last).dispatch.handled
        /\ LastResult.storeReads = 1
        /\ ~LastResult.forwarded
        /\ LastResult.ctx = None
        /\ LastResult.replyTargets = <<>>
        /\ LastResult.stage = (IF LastDmPolicy = "pairing" THEN "pairing"
                               ELSE "dm_not_allowed")

\* C29 witness: under allowlist a sender approved in the pairing store is
\* not forwarded when the read of the store fails.
C29_Witness ==
    /\ LastIsDm
    /\ ~Get(last).env.storeReadOk
    /\ LastDmPolicy = "allowlist"
    /\ StringOf(LastMessage.senderId) \in Get(last).host.store
    /\ ~InUnion(StringOf(LastMessage.senderId), ConfiguredAllowList)
    /\ ~LastResult.forwarded

(***************************************************************************)
(* Claims about message content.                                           *)
(***************************************************************************)
LastReachedNormalizer == IsSome(last) /\ IsSome(Get(last).dispatch.normalizer)
\* the last message has blank text, no attachment description and no
\* downloaded attachment
LastIsEmpty ==
    /\ LastReachedNormalizer
    /\ Trim(RawText(LastMessage)) = <<>>
    /\ LastResult.attachmentText = <<>>
    /\ ~LastResult.hasMedia

\* C1: a message whose effective text (trimmed raw text, else the joined
\* attachment descriptions) is empty and none of whose attachments was
\* downloaded is never handed to the host pipeline, and causes no
\* pairing-store access, no route resolution, no typing indicator and no reply.
C1_EmptyDropped ==
    LastIsEmpty =>
        /\ ~LastResult.forwarded
        /\ LastResult.ctx = None
        /\ LastResult.storeReads = 0
        /\ LastResult.upserts = <<>>
        /\ pairingPending = Get(last).host.pending
        /\ ~LastResult.routeResolved
        /\ LastResult.typing = <<>>
        /\ LastResult.pairingReplies = <<>>
        /\ LastResult.replyTargets = <<>>

\* C1 witness: a message of blank text whose only attachment is a sticker
\* without code whose download failed was dropped under the open policy.
C1_Witness ==
    /\ LastIsEmpty
    /\ monitorOpts.dmPolicy = Some("open")
    /\ LastMessage.text = Text(<<" ">>)
    /\ Len(LastMessage.attachments) = 1
    /\ LastMessage.attachments[1].type = "sticker"
    /\ ~Get(last).env.downloads[1]
    /\ ~LastResult.forwarded

(***************************************************************************)
(* Claims about group and channel messages.                                *)
(***************************************************************************)
LastIsGroup == LastHasContent /\ LastMessage.chatType \in {Some("chat"), Some("channel")}
LastChatKey == StringOf(LastMessage.chatId)
\* the keys of the account's groups table
GroupKeys == IF IsSome(monitorOpts.groups) THEN DOMAIN Get(monitorOpts.groups) ELSE {}
\* the policy in effect: the account's, else channels.defaults', else allowlist
LastGroupPolicy ==
    IF IsSome(monitorOpts.groupPolicy) THEN Get(monitorOpts.groupPolicy)
    ELSE IF IsSome(monitorOpts.defaultGroupPolicy) THEN Get(monitorOpts.defaultGroupPolicy)
         ELSE "allowlist"
\* the text matches @<botUsername> (case-insensitive, at a word boundary)
LastMentionsBot ==
    /\ IsSome(monitorOpts.botUsername)
    /\ MentionPatternTest(RawText(LastMessage), Get(monitorOpts.botUsername))
\* the message is a reply to a message sent by the bot
LastRepliesToBot ==
    /\ IsSome(LastMessage.link)
    /\ Get(LastMessage.link).type = "reply"
    /\ IsSome(Get(LastMessage.link).sender)
    /\ Get(Get(LastMessage.link).sender).is_bot
    /\ Some(Get(Get(LastMessage.link).sender).user_id) = monitorOpts.botUserId
\* requireMention of the chat's entry, else of the "*" entry, is unset or true
LastRequiresMention ==
    LET table == Get(monitorOpts.groups)
        entry == IF LastChatKey \in GroupKeys THEN Some(table[LastChatKey])
                 ELSE IF Wildcard \in GroupKeys THEN Some(table[Wildcard]) ELSE None
    IN  IsSome(entry) => Get(entry).requireMention \in {None, Some(TRUE)}

C5_MentionGate ==
    (/\ LastIsGroup
     /\ \/ LastGroupPolicy = "open"
        \/ LastGroupPolicy = "allowlist"
             /\ (LastChatKey \in GroupKeys \/ Wildcard \in GroupKeys)
     /\ LastRequiresMention)
        => (LastResult.forwarded <=> (LastMentionsBot \/ LastRepliesToBot))

(***************************************************************************)
(* Claims about edited messages.                                           *)
(***************************************************************************)
LastIsEdit ==
    /\ IsSome(last)
    /\ Get(last).update.update_type = "message_edited"
    /\ IsSome(Get(last).update.message)
LastOriginalMid == Get(Get(last).update.message).mid
\* digits only, as many as the decimal numeral of n has
IsDecimalOf(s, n) ==
    /\ AllDigits(s)
    /\ (n < 10 <=> Len(s) = 1)
    /\ (Len(s) > 1 => s[1] # "0")

\* C6: for a message_edited update of original message id m and timestamp t
\* the message id handed to the host pipeline is m, "_edited_" and the decimal
\* digits of t, which differs from m, and every reply to that message is sent
\* with reply-target id m.
C6_EditedMid ==
    (LastIsEdit /\ LastResult.forwarded) =>
        LET m == LastOriginalMid
            sid == Get(LastResult.ctx).MessageSid
            n == Len(m) + Len(EditedMarker)
        IN  /\ Len(sid) > n
            /\ SubSeq(sid, 1, Len(m)) = m
            /\ SubSeq(sid, Len(m) + 1, n) = EditedMarker
            /\ IsDecimalOf(SubSeq(sid, n + 1, Len(sid)), Get(last).update.timestamp)
            /\ sid # m
            /\ Len(LastResult.replyTargets) = Get(last).env.deliveries
            /\ \A i \in DOMAIN LastResult.replyTargets :
                   LastResult.replyTargets[i].replyToId = m

\* C6 witness: an edit of a message whose own id already ends in an edit
\* marker was forwarded and answered twice, each reply targeting that id.
C6_Witness ==
    /\ LastIsEdit /\ LastResult.forwarded
    /\ LastOriginalMid = <<"a", "_", "e", "d", "i", "t", "e", "d", "_", "5">>
    /\ Get(last).update.timestamp >= 10
    /\ Len(LastResult.replyTargets) = 2
    /\ LastResult.replyTargets[2].replyToId = LastOriginalMid

\* the last message has no text and one attachment, a sticker with a code and
\* no URL
LastIsCodeSticker ==
    /\ LastReachedNormalizer
    /\ LastMessage.text = None
    /\ Len(LastMessage.attachments) = 1
    /\ LastMessage.attachments[1].type = "sticker"
    /\ LastMessage.attachments[1].code # ""
    /\ LastMessage.attachments[1].url = ""

\* C14: for a message with no text whose only attachment is a sticker with
\* code c and no URL, the effective text is exactly "[Sticker: code=c]", the
\* sticker cache holds c as the last code of the message's chat, and the
\* message is not dropped as empty.
C14_StickerDescription ==
    LastIsCodeSticker =>
        LET c == LastMessage.attachments[1].code
        IN  /\ LastResult.effectiveText = <<"[Sticker: code=", c, "]">>
            /\ MapGet(stickerCache.byChat, StringOf(LastMessage.chatId)) = c
            /\ stickerCache.global = Some(c)
            /\ ~LastIsEmpty
            /\ LastResult.stage # "empty"

\* C13: an update of a kind other than message_created, message_callback,
\* message_edited and bot_started (bot_added and bot_removed among them)
\* is dispatched to completion without the Normalizer or the host pipeline
\* being invoked, without a vendor API call and without any effect on the
\* pairing requests or the sticker cache.
C13_UnknownKindsDropped ==
    (IsSome(last) /\ Get(last).update.update_type \notin HandledKinds) =>
        /\ Get(last).dispatch = NoDispatch
        /\ Get(last).dispatch.actions = <<>>
        /\ Get(last).dispatch.fetches = <<>>
        /\ Get(last).dispatch.normalizer = None
        /\ ~Get(last).dispatch.result.forwarded
        /\ Get(last).dispatch.result.typing = <<>>
        /\ Get(last).dispatch.result.pairingReplies = <<>>
        /\ pairingPending = {}
        /\ stickerCache = [byChat |-> EmptyMap, global |-> None]

\* C13 witness: a bot_added update carrying a user, a chat id and a message
\* was dispatched and nothing was done with it.
C13_Witness ==
    /\ IsSome(last)
    /\ Get(last).update.update_type = "bot_added"
    /\ Get(last).update.user = Some(1)
    /\ Get(last).update.message = Some(BaseMessage)
    /\ Get(last).dispatch = NoDispatch

\* the edit's own body has no non-blank text and the edit is not one of the
\* bot's own messages
LastIsTextlessEdit ==
    /\ LastIsEdit
    /\ ~FromBotItself(Get(Get(last).update.message), monitorOpts)
    /\ Trim(RawText(Get(Get(last).update.message))) = <<>>
\* the fetch made for the last update returned a message with text
LastFetchReturnedText ==
    /\ Get(last).dispatch.fetches # <<>>
    /\ Get(last).env.fetch.outcome = "ok"
    /\ IsSome(Get(last).env.fetch.message)
    /\ Truthy(Get(Get(last).env.fetch.message).text)

\* C15: for a message_edited update whose body has no non-blank text, at
\* most one fetch is made, of the message's original id; when the fetch
\* returns text T the message is normalised with text T and, when forwarded,
\* has RawBody = T; when the fetch fails or returns no text the message is
\* still passed to the Normalizer, with the text the edit itself carried.
C15_EditedFetch ==
    LastIsTextlessEdit =>
        LET original == Get(Get(last).update.message)
            fetches == Get(last).dispatch.fetches
        IN  /\ Len(fetches) <= 1
            /\ \A i \in DOMAIN fetches : fetches[i].mid = original.mid
            /\ LastReachedNormalizer
            /\ IF LastFetchReturnedText
               THEN LET T == Get(Get(Get(last).env.fetch.message).text)
                    IN  /\ LastMessage.text = Some(T)
                        /\ LastResult.forwarded => Get(LastResult.ctx).RawBody = T
               ELSE /\ LastMessage.text = original.text
                    /\ LastMessage.attachments = original.attachments
                    /\ LastResult.forwarded =>
                           Get(LastResult.ctx).RawBody = RawText(original)

\* C15 witness: an edit without text was forwarded with the text the fetch
\* returned, surrounding blank included.
C15_Witness ==
    /\ LastIsTextlessEdit
    /\ LastFetchReturnedText
    /\ Len(Get(last).dispatch.fetches) = 1
    /\ LastResult.forwarded
    /\ Get(LastResult.ctx).RawBody = <<" ", "k">>

(***************************************************************************)
(* Claims about the update receiver.                                       *)
(***************************************************************************)
\* markers as the loop holds them: None (unset) is below every number
MarkerLeq(a, b) == a = None \/ (b # None /\ Get(a) <= Get(b))
CycleOver == rcvPc \in {"request", "backoff", "stopped"}
ReceiverDone == rcvPc \in {"stopped", "returned", "threw"}

\* C11: the marker starts unset (the first request carries none); the marker
\* sent with a request is never smaller than the one sent with the request
\* before it, the vendor API returning non-decreasing markers; a successful
\* response with a null marker leaves the adopted marker as it was sent.
C11_MarkerMonotone ==
    /\ []((rcvPc = "dispatching" /\ resp.marker = None) => Some(marker) = sentMarker)
    /\ []((rcvPc = "dispatching" /\ resp.marker # None) => marker = resp.marker)
    /\ [][/\ (sentMarker = None /\ sentMarker' # None) => sentMarker' = Some(None)
          /\ (sentMarker # None /\ sentMarker' # None)
                 => MarkerLeq(Get(sentMarker), Get(sentMarker'))]_vars

\* C11 witness: a poll sent with a marker got a null marker back and the
\* loop still holds the marker it sent.
C11_Witness ==
    /\ rcvPc = "dispatching"
    /\ resp.marker = None
    /\ marker # None
    /\ Some(marker) = sentMarker

\* the dispatch events of a cycle: start 1, settle 1, start 2, settle 2, ...
\* each settle being an error exactly when the dispatch of that update threw
LogInOrder ==
    /\ Len(cycleLog) <= 2 * Len(resp.updates)
    /\ \A k \in DOMAIN cycleLog :
          /\ cycleLog[k].n = (k + 1) \div 2
          /\ cycleLog[k].event =
                 (IF k % 2 = 1 THEN "start"
                  ELSE IF resp.updates[k \div 2].throws THEN "error" ELSE "done")
    /\ rcvPc = "dispatching" <=> Len(cycleLog) % 2 = 1
LogComplete == Len(cycleLog) = 2 * Len(resp.updates)

\* C12 as stated: every update of a polled batch is dispatched, in the order
\* returned and one at a time; a dispatch error is logged, does not reach the
\* receive loop and prevents neither the later dispatches nor the next poll.
C12_BatchDispatch_Original ==
    /\ LogInOrder
    /\ CycleOver => LogComplete

\* C12 amended: the same, for the updates whose turn comes while the abort
\* signal is not raised: once the signal is raised the rest of the batch is
\* not dispatched.
C12_BatchDispatch ==
    /\ LogInOrder
    /\ (CycleOver /\ ~aborted) => LogComplete
    /\ (CycleOver /\ ~LogComplete) => rcvPc = "stopped"

\* C12 witness: the first update of a batch of two threw, the second was
\* dispatched all the same and the next poll was issued.
C12_Witness ==
    /\ rcvPc = "request"
    /\ Len(resp.updates) = 2
    /\ resp.updates[1].throws
    /\ Len(cycleLog) = 4
    /\ cycleLog[2].event = "error"
    /\ cycleLog[4].event = "done"
    /\ "dispatch" \in rcvLogged
    /\ ~aborted

\* the target registered by startMaxWebhook is in the registry
OwnTargetRegistered ==
    /\ IsSome(rcvUnregister)
    /\ \E k \in DOMAIN webhookTargets :
          \E i \in DOMAIN webhookTargets[k] : webhookTargets[k][i].id = Get(rcvUnregister).id

\* C18: a failed subscribe is propagated, the target being deregistered by
\* then; a failed unsubscribe is only logged, startMaxWebhook returns and the
\* target is deregistered; the target is never registered once startMaxWebhook
\* has returned or thrown.
C18_WebhookLifecycle ==
    /\ rcvPc = "threw" <=> "subscribe" \in rcvLogged
    /\ "unsubscribe" \in rcvLogged => rcvPc = "returned"
    /\ rcvPc \in {"returned", "threw"} => ~OwnTargetRegistered
    /\ rcvPc \in {"subscribing", "waiting", "unsubscribing"} => OwnTargetRegistered

\* C18 witness: unsubscribe failed, startMaxWebhook returned, its target is
\* gone and the other account's target on the same path is still there.
C18_Witness ==
    /\ rcvPc = "returned"
    /\ "unsubscribe" \in rcvLogged
    /\ ~OwnTargetRegistered
    /\ MapGet(webhookTargets, <<"/", "h">>) = <<OtherTarget>>

\* C19: once the abort signal is raised the receiver eventually stops; no
\* getUpdates request is issued after the signal is raised; the dispatch in
\* progress is not cancelled but settles; the webhook wait goes on to
\* unsubscribe and deregister.
C19_AbortStops ==
    /\ aborted ~> ReceiverDone
    /\ [](rcvPc = "returned" => ~OwnTargetRegistered)
    /\ [][/\ aborted => rcvPc' # "request"
          /\ rcvPc = "dispatching" =>
                 \/ rcvPc' = "dispatching" /\ cycleLog' = cycleLog
                 \/ /\ Len(cycleLog') > Len(cycleLog)
                    /\ cycleLog'[Len(cycleLog) + 1].event \in {"done", "error"}
                    /\ cycleLog'[Len(cycleLog) + 1].n = batchIdx
          /\ rcvPc = "waiting" => rcvPc' \in {"waiting", "unsubscribing"}
          /\ rcvPc = "unsubscribing" => rcvPc' \in {"unsubscribing", "returned"}]_vars

\* C19 witness: the signal was raised during the first dispatch of a batch of
\* two; that dispatch settled, the second never started, the loop stopped.
C19_Witness ==
    /\ aborted
    /\ rcvPc = "stopped"
    /\ Len(resp.updates) = 2
    /\ Len(cycleLog) = 2
    /\ cycleLog[2].event \in {"done", "error"}

\* C20: a failed getUpdates request, the signal not being raised, dispatches
\* nothing and keeps the marker; after the back-off the next request carries
\* the same marker; the loop never stops unless the signal is raised.
C20_PollFailureRetries ==
    /\ [](rcvPc = "stopped" => aborted)
    /\ [][/\ (rcvPc = "request" /\ ~aborted /\ ~aborted' /\ failures' > 0 /\ vars' # vars)
                 => /\ rcvPc' = "backoff"
                    /\ marker' = marker
                    /\ sentMarker' = sentMarker
                    /\ cycleLog' = cycleLog
                    /\ resp' = resp
          /\ (rcvPc = "backoff" /\ ~aborted /\ rcvPc' # "backoff")
                 => /\ rcvPc' = "request"
                    /\ marker' = marker
                    /\ sentMarker' = sentMarker
                    /\ sentMarker' = Some(marker)]_vars

\* C20 witness: after several failures in a row a request is in flight again
\* with the marker adopted before them.
C20_Witness ==
    /\ rcvPc = "request"
    /\ failures = MaxFailures
    /\ ~aborted
    /\ marker # None
    /\ sentMarker = Some(marker)

(***************************************************************************)
(* Claims about configuration resolution.                                  *)
(***************************************************************************)
\* the call is for a named account that channels.max.accounts has an entry for
ArgNamesAccount ==
    /\ IsSome(cfgArg.accountId)
    /\ Get(cfgArg.accountId) \notin {"", DEFAULT_ACCOUNT_ID}
    /\ IsSome(cfgArg.cfg.max)
    /\ IsSome(Get(cfgArg.cfg.max).accounts)
    /\ Get(cfgArg.accountId) \in DOMAIN Get(Get(cfgArg.cfg.max).accounts)
ArgAccountEntry == Get(Get(cfgArg.cfg.max).accounts)[Get(cfgArg.accountId)]
\* the groups table the claim names: the named account's own when it has
\* one, the channel-level one otherwise
ArgGroupsTable ==
    IF ArgNamesAccount /\ IsSome(ArgAccountEntry.groups) THEN ArgAccountEntry.groups
    ELSE IF IsSome(cfgArg.cfg.max) THEN Get(cfgArg.cfg.max).groups
    ELSE None
ArgGroupKey == IF IsSome(cfgArg.groupId) THEN Trim(Get(cfgArg.groupId)) ELSE <<>>
MentionOf(key) ==
    IF IsSome(ArgGroupsTable) /\ key \in DOMAIN Get(ArgGroupsTable)
    THEN Get(ArgGroupsTable)[key].requireMention
    ELSE Undefined

\* C16: groups.resolveRequireMention returns the requireMention of the group's
\* own entry when that is a boolean, else that of the "*" entry when that is
\* a boolean, else true; the table consulted is the named account's own table
\* when it has one and the channel-level table otherwise.
C16_RequireMention ==
    IsSome(cfgResult.requireMention) =>
        Get(cfgResult.requireMention) =
            (IF MentionOf(ArgGroupKey).kind = "boolean" THEN MentionOf(ArgGroupKey).value
             ELSE IF MentionOf(Wildcard).kind = "boolean" THEN MentionOf(Wildcard).value
             ELSE TRUE)

\* C16 witness: the named account has a table of its own without an entry
\* for the group; the channel-level entry of the group says false; the
\* result is true.
C16_Witness ==
    /\ cfgResult.requireMention = Some(TRUE)
    /\ ArgNamesAccount
    /\ ArgAccountEntry.groups = Some(Table(Undefined, Undefined))
    /\ cfgArg.groupId = Some(<<" ", "1", "0", " ">>)
    /\ Get(cfgArg.cfg.max).groups = Some(Table(Bool(FALSE), Bool(FALSE)))

PolicyFields ==
    {"dmPolicy", "allowFrom", "groups", "groupPolicy", "webhookUrl", "webhookSecret",
     "webhookPath", "mediaMaxMb"}

\* C17: for a named account every policy field of the resolved config is the
\* value of the account's own entry when the entry sets it and the top-level
\* channels.max value when the entry leaves it unset.
C17_AccountLayering ==
    (IsSome(cfgResult.account) /\ ArgNamesAccount) =>
        \A f \in PolicyFields :
            Get(cfgResult.account).config[f] =
                (IF IsSome(ArgAccountEntry[f]) THEN ArgAccountEntry[f]
                 ELSE Get(cfgArg.cfg.max)[f])

\* the group id of the call is the String() of a chat id: digits only
ArgIsChatId ==
    /\ IsSome(cfgArg.groupId)
    /\ Get(cfgArg.groupId) # <<>>
    /\ AllDigits(Get(cfgArg.groupId))

\* C26: for every configuration, account and group chat id, the mention
\* requirement the inbound gate applies is the boolean that
\* groups.resolveRequireMention returns for them.
C26_SameMentionRequirement ==
    (ArgIsChatId /\ IsSome(cfgResult.gate) /\ IsSome(cfgResult.requireMention)) =>
        Get(cfgResult.gate) = Get(cfgResult.requireMention)

(***************************************************************************)
(* Claims about resolveMaxWebhookPath.                                     *)
(***************************************************************************)
\* C10: resolveMaxWebhookPath is idempotent on the path argument, and its
\* result starts with "/" and does not end with "/" unless it is exactly "/".
C10_ResolveIdempotent ==
    pathPc = "twice" =>
        /\ pathTwice = pathOnce
        /\ StartsWith(pathOnce, Slash)
        /\ EndsWith(pathOnce, Slash) => pathOnce = Slash

(***************************************************************************)
(* Claims about inbound updates of a started account.                      *)
(***************************************************************************)
LastUpdate == Get(last).update
LastDispatch == Get(last).dispatch
\* the last update is a created or edited message sent by the bot's account
LastIsOwnMessage ==
    /\ IsSome(last)
    /\ LastUpdate.update_type \in {"message_created", "message_edited"}
    /\ IsSome(LastUpdate.message)
    /\ Get(LastUpdate.message).senderId = Some(Me.user_id)

\* C23: a message_created or message_edited update sent by the bot's own
\* account reaches neither the normaliser nor the host pipeline and causes no
\* mark-seen, typing, fetch or reply call.
C23_NoSelfProcessing == LastIsOwnMessage => LastDispatch = NoDispatch

\* C24 as stated: every message the normaliser processes has chat type
\* dialog, chat or channel, and passes exactly one gate, the group gate for
\* chat and channel and the direct-message gate otherwise, with ChatType
\* "group" and "direct" accordingly.
LastGroupGateOnly ==
    /\ LastResult.stage \in {"group_blocked", "not_mentioned", "forwarded"}
    /\ LastResult.storeReads = 0
    /\ LastResult.upserts = <<>>
    /\ LastResult.pairingReplies = <<>>
    /\ (LastGroupPolicy = "open" /\ ~LastRequiresMention) => LastResult.forwarded
    /\ LastGroupPolicy = "disabled" => ~LastResult.forwarded
    /\ LastResult.forwarded => Get(LastResult.ctx).ChatType = "group"
LastDmGateOnly ==
    /\ LastResult.stage \in {"dm_disabled", "dm_not_allowed", "pairing", "forwarded"}
    /\ LastDmPolicy = "open" => LastResult.forwarded
    /\ LastDmPolicy = "disabled" => ~LastResult.forwarded
    /\ LastResult.forwarded => Get(LastResult.ctx).ChatType = "direct"
LastIsCallback ==
    /\ IsSome(last)
    /\ LastUpdate.update_type = "message_callback"
    /\ IsSome(LastUpdate.callback)
LastCallback == Get(LastUpdate.callback)
\* C25: a callback with a non-blank payload reaches the normaliser as a
\* message with the payload as text, the pressing user as sender and the
\* recipient of the message that carried the keyboard, and has the effects of
\* that message typed; a callback with an absent, empty or blank payload
\* reaches no normaliser and has no effect.
C25_CallbackAsMessage ==
    LastIsCallback =>
        IF Trim(OrElse(LastCallback.payload, <<>>)) # <<>>
        THEN /\ IsSome(LastDispatch.normalizer)
             /\ LastMessage.text = LastCallback.payload
             /\ LastMessage.senderId = Some(LastCallback.userId)
             /\ IsSome(LastCallback.message) =>
                    /\ LastMessage.chatId = Get(LastCallback.message).chatId
                    /\ LastMessage.chatType = Get(LastCallback.message).chatType
             /\ LastResult = dispatchUpdate(MessageCreated(LastMessage), monitorOpts,
                                            Get(last).host, Get(last).env).result
        ELSE /\ LastDispatch.normalizer = None
             /\ LastResult = NoEffects
             /\ LastDispatch.actions = <<>>
             /\ LastDispatch.fetches = <<>>
\* a press in a group chat is forwarded as a group message
C25_Witness ==
    /\ LastIsCallback
    /\ LastCallback.payload = Some(Go)
    /\ IsSome(LastCallback.message)
    /\ LastMessage.chatType = Some("chat")
    /\ LastResult.forwarded
    /\ Len(LastResult.replyTargets) > 0

(***************************************************************************)
(* Claims about the webhook subscription.                                  *)
(***************************************************************************)
\* C27 as stated: whenever the vendor's subscription for the account's URL
\* is active, the account's target is in the registry.
C27_SubscribedImpliesRegistered_Original == subscribed => OwnTargetRegistered
\* C27: while startMaxWebhook runs, an active subscription implies that the
\* account's target is registered: the target is registered before subscribe
\* is called and deregistered only after the unsubscribe call has settled;
\* after an unsubscribe call that succeeded no subscription is left.
C27_SubscribedImpliesRegistered ==
    /\ (subscribed /\ rcvPc \notin {"returned", "threw"}) => OwnTargetRegistered
    /\ subscribed => IsSome(rcvUnregister)
    /\ rcvPc = "subscribing" => OwnTargetRegistered
    /\ (rcvPc = "returned" /\ "unsubscribe" \notin rcvLogged) => ~subscribed
\* the subscription is active while startMaxWebhook waits for the signal
C27_Witness ==
    /\ subscribed
    /\ rcvPc = "waiting"
    /\ OwnTargetRegistered

(***************************************************************************)
(* Claims about replies.                                                   *)
(***************************************************************************)
TextCalls(log) == LET IsText(e) == e.op = "text" IN SelectSeq(log, IsText)
\* the first call made for a media item: the download of a remote one, the
\* send of a local one
MediaAttempts(log) ==
    LET IsAttempt(e) == e.op \in {"fetch", "send_local"} IN SelectSeq(log, IsAttempt)
InMediaLoopOrDone(proc) ==
    proc.pc \in {"fetch", "write", "send_staged", "unlink", "send_local", "done"}

\* C21: the text chunks are sent in chunk order and before any media item; a
\* failed chunk send does not stop the remaining chunks or the media items, a
\* failed download, staging or send of a media item does not stop the later
\* items, and none of these failures leaves deliverMaxReply.
C21_FailuresIsolated ==
    \A p \in Procs :
        LET proc == dlv[p]
            texts == TextCalls(proc.log)
            attempts == MediaAttempts(proc.log)
        IN  /\ \A k \in DOMAIN texts : k <= Len(proc.chunks) /\ texts[k].item = proc.chunks[k]
            /\ \A a, b \in DOMAIN proc.log :
                  (a < b /\ proc.log[b].op = "text") => proc.log[a].op = "text"
            /\ InMediaLoopOrDone(proc) => Len(texts) = Len(proc.chunks)
            /\ \A k \in DOMAIN attempts :
                  k <= Len(proc.media) /\ attempts[k].item = proc.media[k]
            /\ proc.pc = "done" => Len(attempts) = Len(proc.media)
            /\ proc.pc = "threw" => proc.log = <<>>
\* the first chunk and the download of the first media item fail; the second
\* chunk and the second media item are sent
C21_Witness ==
    LET log == dlv["a"].log
    IN  /\ dlv["a"].pc = "done"
        /\ Len(log) = 4
        /\ log[1].op = "text" /\ ~log[1].ok
        /\ log[2].op = "text" /\ log[2].ok
        /\ log[3].op = "fetch" /\ ~log[3].ok
        /\ log[4].op = "send_local" /\ log[4].ok

\* C22: the temp file of a remote media item exists only while that item is
\* being handled, whether its send succeeded or failed; a local path is sent
\* directly, nothing being staged for it and nothing deleted.
C22_TempFilesRemoved ==
    /\ \A path \in DOMAIN tmpFiles :
          \E p \in Procs : dlv[p].tmpPath = path /\ dlv[p].pc \in {"send_staged", "unlink"}
    /\ \A p \in Procs : \A k \in DOMAIN dlv[p].log :
          /\ dlv[p].log[k].op \in {"fetch", "write", "unlink"}
                => IsRemote(dlv[p].log[k].item)
          /\ dlv[p].log[k].op = "send_local" => ~IsRemote(dlv[p].log[k].item)

\* String(chatId ?? senderId) of the inbound message of an invocation
InboundChat(proc) ==
    LET message == Get(proc.message)
    IN  StringOf(IF IsSome(message.chatId) THEN message.chatId ELSE message.senderId)
\* C30: every reply of an invocation (pairing reply, text chunk, media item)
\* goes to the chat id of its inbound message, or to the sender id when the
\* message has none, and what is sent is a chunk or a media item of its own
\* payload, also while another invocation is in progress.
C30_RepliesToOwnChat ==
    \A p \in Procs :
        \A k \in DOMAIN dlv[p].log :
            LET call == dlv[p].log[k]
            IN  /\ call.op \in {"pairing", "text", "send_staged", "send_local"}
                      => call.chat = InboundChat(dlv[p])
                /\ (call.op \in {"send_staged", "send_local"} /\ call.ok)
                      => call.item \in SeqToSet(dlv[p].media)

====
